---------------------------- MODULE Spec2Model ----------------------------
(*
  A model of the storybook generator (little-book-maker): the PDF layout
  routine of the export-pdf function (wrapText, createPDF), the word counting
  of story-write and of lib/validation, and the page editor's readiness rule.

  Strings are sequences of one-character strings, so that splitting, joining
  and measuring are computed character by character as the code does.
  Widths are kept in thousandths of a point (glyph units * font size).
*)
EXTENDS Integers, Sequences, FiniteSets, TLC

VARIABLES
  \* wrapText, one call (export-pdf)
  text, fontSize, maxWidth, words, wi, currentLine, lines, pc,
  \* one page text and what story-write, validatePage and the editor make of it
  pageText, readingLevel, written, validated, shown,
  \* the page editor: config.pages and the wizard's step
  pages, currentStep,
  \* export-pdf: the request being served and the response given
  request, response,
  \* the export panel: its configuration (config.exports apart), its state
  \* hooks, the last toast and the flag of the session in localStorage
  panelConfig, exports, isExporting, showExportCheckout, toast, firstExportUsed,
  \* story-write: the outline and the reading level of the request, whether
  \* the provider key is set, the task of each page, the response
  outline, writeLevel, openaiKey, task, writeResponse,
  \* generate-images: the request (prompts, page size), the handler deployed
  \* and the keys of its environment, the prompt the loop is at and the fetch
  \* it awaits, the provider calls made so far, the images array, the response
  prompts, imagePageSize, imageVariant, imageKeys, promptAt, awaiting, calls,
  images, imagesResponse,
  \* the generation screen: the version of the component, its state hooks,
  \* the number of its mounting, and the calls of generateStory in flight
  screen, generationStep, progress, error, isGenerating, mount, runs,
  \* the configuration of the setup form, as far as validateConfig reads it
  storyConfig,
  \* the print order of the export panel: its state hooks, the exports the
  \* checkout in flight has captured, the order posted to create-print-order
  \* and the response given
  isPrinting, showPrintCheckout, paying, printRequest, printResponse,
  \* billing-confirm: the request being served and the response given
  confirmRequest, confirmResponse,
  \* the session: the items of localStorage by key, the id of the signed-in
  \* user, Date.now(), and the last session a component has read
  localStorage, userId, sessionClock, lastRead,
  \* the baby tracker: data.logs, the undo offer, the timeouts pending, the
  \* time in seconds and the entries logged so far
  logs, undo, timers, clock, logged

wrapVars == <<text, fontSize, maxWidth, words, wi, currentLine, lines, pc>>
countVars == <<pageText, readingLevel, written, validated, shown>>
editorVars == <<pages, currentStep>>
exportVars == <<request, response>>
panelVars == <<panelConfig, exports, isExporting, showExportCheckout, toast, firstExportUsed>>
writeVars == <<outline, writeLevel, openaiKey, task, writeResponse>>
\* the client and export-pdf on one side, the generation services on the other
previewVars == <<screen, generationStep, progress, error, isGenerating, mount, runs>>
setupVars == <<storyConfig>>
printVars == <<isPrinting, showPrintCheckout, paying, printRequest, printResponse>>
\* what the panel and the pages beside the wizard keep
billingVars == <<confirmRequest, confirmResponse>>
sessionVars == <<localStorage, userId, sessionClock, lastRead>>
trackerVars == <<logs, undo, timers, clock, logged>>
restVars == <<printVars, billingVars, sessionVars, trackerVars>>
clientVars == <<wrapVars, countVars, editorVars, exportVars, panelVars, previewVars,
                setupVars, restVars>>
imageVars == <<prompts, imagePageSize, imageVariant, imageKeys, promptAt, awaiting,
               calls, images, imagesResponse>>
serviceVars == <<writeVars, imageVars>>
\* the wizard, its panels and the functions they call
appVars == <<wrapVars, countVars, editorVars, exportVars, panelVars, previewVars,
             setupVars, writeVars, imageVars>>
vars == <<clientVars, serviceVars>>

-----------------------------------------------------------------------------
(* Bounds of the model *)

\* longest text, in characters, handed to the wrapText probe
MaxLen == 5

\* most words of a page text whose words are counted
MaxWords == 166

\* most pages of a story in the page editor
MaxPages == 2

\* most pages in a request to export-pdf
MaxPdfPages == 3

-----------------------------------------------------------------------------
(* Characters and strings *)

\* the white space JavaScript's \s and trim() know, as far as texts here use it
WhiteSpace == {" ", "\t", "\n"}

IsWs(c) == c \in WhiteSpace

\* all sequences over S of length at most n
RECURSIVE SeqsUpTo(_, _)
SeqsUpTo(S, n) ==
  IF n = 0 THEN {<<>>}
  ELSE LET shorter == SeqsUpTo(S, n - 1)
       IN shorter \cup {Append(s, c) : s \in {x \in shorter : Len(x) = n - 1}, c \in S}

\* the indices lo..hi at which the marking m holds, ascending
MarkedIn(m, lo, hi) ==
  SelectSeq([i \in 1..(hi - lo + 1) |-> lo + i - 1], LAMBDA i : m[i])

\* the pieces of t left when the separators from[j]..to[j] are cut out,
\* empty pieces kept: what String.prototype.split returns
PiecesBetween(t, from, to) ==
  [j \in 1..(Len(from) + 1) |->
     SubSeq(t,
            IF j = 1 THEN 1 ELSE to[j - 1] + 1,
            IF j = Len(from) + 1 THEN Len(t) ELSE from[j] - 1)]

\* String.prototype.split(' '): cut at every single space, empty pieces kept
SplitSpace(t) ==
  LET at == MarkedIn([i \in 1..Len(t) |-> t[i] = " "], 1, Len(t))
  IN PiecesBetween(t, at, at)

\* String.prototype.split(/\s+/): cut at every maximal run of white space,
\* empty pieces (before a leading run, after a trailing run) kept
SplitWs(t) ==
  LET n == Len(t)
      ws == [i \in 1..n |-> IsWs(t[i])]
      starts == MarkedIn([i \in 1..n |-> ws[i] /\ (i = 1 \/ ~ws[i - 1])], 1, n)
      ends   == MarkedIn([i \in 1..n |-> ws[i] /\ (i = n \/ ~ws[i + 1])], 1, n)
  IN PiecesBetween(t, starts, ends)

\* Array.prototype.filter(Boolean) on strings: the empty string is falsy
FilterBoolean(ws) == SelectSeq(ws, LAMBDA w : w # <<>>)

-----------------------------------------------------------------------------
(* Text measurement: font.widthOfTextAtSize of the embedded Helvetica *)

\* advance width of a glyph in 1/1000 em (Helvetica: a 556, W 944, space 278)
GlyphWidth(c) ==
  CASE c = "a" -> 556
    [] c = "W" -> 944
    [] OTHER   -> 278

\* the glyph widths of t[lo..hi], summed
RECURSIVE GlyphUnits(_, _, _)
GlyphUnits(t, lo, hi) ==
  IF lo > hi THEN 0
  ELSE IF lo = hi THEN GlyphWidth(t[lo])
  ELSE LET mid == (lo + hi) \div 2
       IN GlyphUnits(t, lo, mid) + GlyphUnits(t, mid + 1, hi)

\* width of t at the given size, in thousandths of a point
widthOfTextAtSize(t, size) == GlyphUnits(t, 1, Len(t)) * size

-----------------------------------------------------------------------------
(* wrapText: export-pdf *)

\* wrapText measuring the next word alone instead of the candidate line
WrapStepMeasuresWord(st, word, size, maxW) ==
  LET testLine == st.currentLine
                  \o (IF st.currentLine # <<>> THEN <<" ">> ELSE <<>>)
                  \o word
      textWidth == widthOfTextAtSize(word, size)
  IN IF textWidth <= maxW
     THEN [lines |-> st.lines, currentLine |-> testLine]
     ELSE IF st.currentLine # <<>>
          THEN [lines |-> Append(st.lines, st.currentLine), currentLine |-> word]
          ELSE [lines |-> Append(st.lines, word), currentLine |-> st.currentLine]

\* wrapText closing the current line without asking whether it holds a word
WrapStepPushesAlways(st, word, size, maxW) ==
  LET testLine == st.currentLine
                  \o (IF st.currentLine # <<>> THEN <<" ">> ELSE <<>>)
                  \o word
      textWidth == widthOfTextAtSize(testLine, size)
  IN IF textWidth <= maxW
     THEN [lines |-> st.lines, currentLine |-> testLine]
     ELSE [lines |-> Append(st.lines, st.currentLine), currentLine |-> word]

\* one iteration of the for-of loop over the words
WrapStep(st, word, size, maxW) ==
  LET testLine == st.currentLine
                  \o (IF st.currentLine # <<>> THEN <<" ">> ELSE <<>>)
                  \o word
      textWidth == widthOfTextAtSize(testLine, size)
  IN IF textWidth <= maxW
     THEN [lines |-> st.lines, currentLine |-> testLine]
     ELSE IF st.currentLine # <<>>
          THEN [lines |-> Append(st.lines, st.currentLine), currentLine |-> word]
          ELSE [lines |-> Append(st.lines, word), currentLine |-> st.currentLine]

\* the trailing push and the return
WrapFinish(st) ==
  IF st.currentLine # <<>> THEN Append(st.lines, st.currentLine) ELSE st.lines

\* the loop over the words ws[lo..hi], in order, from the state st
RECURSIVE WrapLoop(_, _, _, _, _, _)
WrapLoop(ws, lo, hi, st, size, maxW) ==
  IF lo > hi THEN st
  ELSE IF lo = hi THEN WrapStep(st, ws[lo], size, maxW)
  ELSE LET mid == (lo + hi) \div 2
           half == WrapLoop(ws, lo, mid, st, size, maxW)
       IN IF Len(half.lines) >= 0
          THEN WrapLoop(ws, mid + 1, hi, half, size, maxW)
          ELSE half

wrapText(t, size, maxW) ==
  LET ws == SplitSpace(t)
  IN WrapFinish(WrapLoop(ws, 1, Len(ws), [lines |-> <<>>, currentLine |-> <<>>], size, maxW))

-----------------------------------------------------------------------------
(* The parts of the state a specification leaves at rest *)

\* a result not yet computed, a response not yet given
None == [none |-> TRUE]

IdleWrap ==
  /\ text = <<>>
  /\ fontSize = 14
  /\ maxWidth = 0
  /\ words = <<>>
  /\ wi = 0
  /\ currentLine = <<>>
  /\ lines = <<>>
  /\ pc = "idle"

IdleCount ==
  /\ pageText = <<>>
  /\ readingLevel = "Early 4-5"
  /\ written = None
  /\ validated = None
  /\ shown = None

IdleEditor ==
  /\ pages = <<>>
  /\ currentStep = "setup"

IdleExport ==
  /\ request = None
  /\ response = None

IdleWrite ==
  /\ outline = <<>>
  /\ writeLevel = "Early 4-5"
  /\ openaiKey = FALSE
  /\ task = <<>>
  /\ writeResponse = None

IdleImages ==
  /\ prompts = <<>>
  /\ imagePageSize = "A5 portrait"
  /\ imageVariant = "Gemini"
  /\ imageKeys = {}
  /\ promptAt = 0
  /\ awaiting = "idle"
  /\ calls = <<>>
  /\ images = <<>>
  /\ imagesResponse = None

IdleServices == IdleWrite /\ IdleImages

\* state.ts initialConfig (strings as sequences of characters)
initialConfig ==
  [contentSafety |-> FALSE, storyType |-> <<>>, setting |-> <<>>,
   characters |-> <<>>, lengthPages |-> 10]

IdleSetup == storyConfig = initialConfig

IdlePrint ==
  /\ isPrinting = FALSE
  /\ showPrintCheckout = FALSE
  /\ paying = <<>>
  /\ printRequest = <<>>
  /\ printResponse = <<>>

IdleBilling ==
  /\ confirmRequest = <<>>
  /\ confirmResponse = <<>>

IdleSession ==
  /\ localStorage = {}
  /\ userId = ""
  /\ sessionClock = 0
  /\ lastRead = <<>>

IdleTracker ==
  /\ logs = <<>>
  /\ undo = <<>>
  /\ timers = {}
  /\ clock = 0
  /\ logged = 0

IdleRest == IdlePrint /\ IdleBilling /\ IdleSession /\ IdleTracker

IdlePreview ==
  /\ screen = "validating"
  /\ generationStep = "idle"
  /\ progress = 0
  /\ error = ""
  /\ isGenerating = FALSE
  /\ mount = 0
  /\ runs = <<>>

IdlePanel ==
  /\ panelConfig = None
  /\ exports = None
  /\ isExporting = FALSE
  /\ showExportCheckout = FALSE
  /\ toast = ""
  /\ firstExportUsed = FALSE

-----------------------------------------------------------------------------
(* One call of wrapText, statement by statement *)

Alphabet == {"a", "W", " ", "\n"}

\* texts with a tab, beside the exhaustive ones
TabTexts == {<<"\t">>, <<"a", "\t", "a">>, <<"a", " ", "\t", "W">>}

Texts == SeqsUpTo(Alphabet, MaxLen) \cup TabTexts

\* createPDF calls wrapText at 14 pt (web) and 16 pt (print)
FontSizes == {14, 16}

\* candidate line widths in thousandths of a point: narrower than W, wider than W but not
\* than two words, wide enough for two words
MaxWidths == {10000, 16000, 24000}

InitWrap ==
  /\ text \in Texts
  /\ fontSize \in FontSizes
  /\ maxWidth \in MaxWidths
  /\ words = <<>>
  /\ wi = 0
  /\ currentLine = <<>>
  /\ lines = <<>>
  /\ pc = "split"
  /\ IdleCount
  /\ IdleEditor
  /\ IdleExport
  /\ IdlePanel
  /\ IdlePreview
  /\ IdleSetup
  /\ IdleRest
  /\ IdleServices

\* const words = text.split(' '); const lines = []; let currentLine = ''
WrapSplit ==
  /\ pc = "split"
  /\ words' = SplitSpace(text)
  /\ wi' = 1
  /\ currentLine' = <<>>
  /\ lines' = <<>>
  /\ pc' = "loop"
  /\ UNCHANGED <<text, fontSize, maxWidth, countVars, editorVars, exportVars, panelVars, previewVars, setupVars, restVars, serviceVars>>

\* for (const word of words) { ... }
WrapWord ==
  /\ pc = "loop"
  /\ wi <= Len(words)
  /\ LET st == WrapStep([lines |-> lines, currentLine |-> currentLine],
                        words[wi], fontSize, maxWidth)
     IN /\ lines' = st.lines
        /\ currentLine' = st.currentLine
  /\ wi' = wi + 1
  /\ UNCHANGED <<text, fontSize, maxWidth, words, pc, countVars, editorVars, exportVars, panelVars, previewVars, setupVars, restVars, serviceVars>>

\* if (currentLine) lines.push(currentLine); return lines
WrapReturn ==
  /\ pc = "loop"
  /\ wi > Len(words)
  /\ lines' = WrapFinish([lines |-> lines, currentLine |-> currentLine])
  /\ pc' = "done"
  /\ UNCHANGED <<text, fontSize, maxWidth, words, wi, currentLine, countVars, editorVars, exportVars, panelVars, previewVars, setupVars, restVars, serviceVars>>

NextWrap == WrapSplit \/ WrapWord \/ WrapReturn

SpecWrap == InitWrap /\ [][NextWrap]_vars

\* the loop is straight-line code: a call that has started runs to its return
SpecWrapLive == SpecWrap /\ WF_vars(NextWrap)

-----------------------------------------------------------------------------
(* Properties of wrapText *)

\* the words of a text as a reader sees them: maximal runs of non-white-space
WordsOf(t) == FilterBoolean(SplitWs(t))

RECURSIVE WordsOfLines(_, _)
WordsOfLines(ls, k) ==
  IF k > Len(ls) THEN <<>> ELSE WordsOf(ls[k]) \o WordsOfLines(ls, k + 1)

\* words separated by single spaces: no other white space, no leading,
\* trailing or doubled space
SingleSpaced(t) ==
  \A i \in 1..Len(t) :
    IsWs(t[i]) => /\ t[i] = " "
                  /\ i > 1 /\ i < Len(t)
                  /\ t[i + 1] # " "

AllSpaces(t) == \A i \in 1..Len(t) : t[i] = " "

FitsWidth(l) == widthOfTextAtSize(l, fontSize) <= maxWidth

\* C3: for single-spaced text, every returned line fits maxWidth or is one
\* word; a word wider than maxWidth is a line of its own; and the first word
\* of every line after the first would not have fitted on the previous line.
WrapGreedy ==
  (pc = "done" /\ SingleSpaced(text)) =>
    /\ \A k \in 1..Len(lines) :
         FitsWidth(lines[k]) \/ Len(SplitSpace(lines[k])) = 1
    /\ \A k \in 1..Len(lines) :
         \A j \in 1..Len(SplitSpace(lines[k])) :
           ~FitsWidth(SplitSpace(lines[k])[j]) => lines[k] = SplitSpace(lines[k])[j]
    /\ \A j \in 1..Len(words) :
         ~FitsWidth(words[j]) => \E k \in 1..Len(lines) : lines[k] = words[j]
    /\ \A k \in 2..Len(lines) :
         ~FitsWidth(lines[k - 1] \o <<" ">> \o SplitSpace(lines[k])[1])

\* C3 witness: a single-spaced text of three words wrapped into three lines,
\* one of them a word wider than maxWidth
WrapGreedyWitness ==
  /\ pc = "done"
  /\ SingleSpaced(text)
  /\ Len(words) = 3
  /\ Len(lines) = 3
  /\ \E k \in 1..Len(lines) : ~FitsWidth(lines[k])
  /\ \E k \in 1..Len(lines) : FitsWidth(lines[k])

\* the result of a finished call loses, duplicates, reorders and splits no word
WrapKeepsWords ==
  pc = "done" =>
    /\ \A k \in 1..Len(lines) : lines[k] # <<>> /\ ~AllSpaces(lines[k])
    /\ WordsOfLines(lines, 1) = WordsOf(text)
    /\ (AllSpaces(text) => lines = <<>>)

WrapSplitsOnAllWhitespace ==
  pc = "done" =>
    \A k \in 1..Len(lines) :
      \A j \in 1..Len(SplitSpace(lines[k])) :
        LET w == SplitSpace(lines[k])[j]
        IN w # <<>> /\ \A i \in 1..Len(w) : ~IsWs(w[i])

-----------------------------------------------------------------------------
(* Reading levels and word counting *)

\* the en dash of the source's level names is written as a hyphen
ReadingLevels == {"Toddler 2-3", "Early 4-5", "Primary 6-8"}

\* WordCountTargets with the minimum of Early 4-5 taken from Toddler 2-3
WordCountTargetsShifted(level) ==
  CASE level = "Toddler 2-3" -> [min |-> 60, max |-> 80]
    [] level = "Early 4-5"   -> [min |-> 60, max |-> 120]
    [] level = "Primary 6-8" -> [min |-> 120, max |-> 150]

\* types.ts: the literal type of lib/validation's wordCountTargets
WordCountTargets(level) ==
  CASE level = "Toddler 2-3" -> [min |-> 60, max |-> 80]
    [] level = "Early 4-5"   -> [min |-> 80, max |-> 120]
    [] level = "Primary 6-8" -> [min |-> 120, max |-> 150]

\* story-write's count without its filter(Boolean)
StoryWriteCountWordsUnfiltered(t) == Len(SplitWs(t))

\* story-write: const countWords = (t) => t.split(/\s+/).filter(Boolean).length
StoryWriteCountWords(t) == Len(FilterBoolean(SplitWs(t)))

\* Math.round of n * tenths / 10, n >= 0
RoundTenths(n, tenths) == (n * tenths + 5) \div 10

\* story-write: the [min, max] its adjustment step aims at
StoryWriteRange(level, target) ==
  CASE level = "Toddler 2-3" -> <<60, 80>>
    [] level = "Early 4-5"   -> <<80, 120>>
    [] level = "Primary 6-8" -> <<120, 150>>
    [] OTHER                 -> <<RoundTenths(target, 9), RoundTenths(target, 11)>>

\* story-write: words < min || words > max, the test that asks for an adjustment
StoryWriteNeedsAdjust(t, level, target) ==
  LET range == StoryWriteRange(level, target)
      n == StoryWriteCountWords(t)
  IN n < range[1] \/ n > range[2]

\* String.prototype.trim
RECURSIVE TrimStart(_)
TrimStart(t) == IF t # <<>> /\ IsWs(Head(t)) THEN TrimStart(Tail(t)) ELSE t

RECURSIVE TrimEnd(_)
TrimEnd(t) ==
  IF t # <<>> /\ IsWs(t[Len(t)]) THEN TrimEnd(SubSeq(t, 1, Len(t) - 1)) ELSE t

Trim(t) == TrimEnd(TrimStart(t))

\* lib/validation countWords: trim, 0 when nothing is left, else the number
\* of pieces between runs of white space
countWords(t) ==
  LET trimmed == Trim(t)
  IN IF trimmed = <<>> THEN 0 ELSE Len(SplitWs(trimmed))

\* lib/validation getWordCountStatus, the spec's classify: no tolerance
getWordCountStatus(wordCount, level) ==
  LET targets == WordCountTargets(level)
  IN [status |-> IF wordCount < targets.min THEN "low"
                 ELSE IF wordCount > targets.max THEN "high"
                 ELSE "good"]

\* lib/validation: the export tolerance of validatePage, in words
WordCountTolerance == 15

\* lib/validation validatePage: the band widened by the tolerance
validatePage(t, level) ==
  LET targets == WordCountTargets(level)
      wordCount == countWords(t)
  IN [isValid   |-> /\ wordCount >= targets.min - WordCountTolerance
                    /\ wordCount <= targets.max + WordCountTolerance,
      wordCount |-> wordCount]

-----------------------------------------------------------------------------
(* One page text, counted by every counter of the program *)

\* n words "a" separated by single spaces
PlainText(n) ==
  IF n = 0 THEN <<>> ELSE [i \in 1..(2 * n - 1) |-> IF i % 2 = 1 THEN "a" ELSE " "]

\* n words, each after a newline and before a space: white space leads,
\* trails and comes in runs, as in a model's paragraphs
RaggedText(n) ==
  [i \in 1..(3 * n + 1) |-> IF i % 3 = 1 THEN "\n" ELSE IF i % 3 = 2 THEN "a" ELSE " "]

PageTexts ==
  {PlainText(n) : n \in 0..MaxWords} \cup {RaggedText(n) : n \in 0..MaxWords} \cup Texts

InitCount ==
  /\ pageText \in PageTexts
  /\ readingLevel \in ReadingLevels
  /\ written = None
  /\ validated = None
  /\ shown = None
  /\ IdleWrap
  /\ IdleEditor
  /\ IdleExport
  /\ IdlePanel
  /\ IdlePreview
  /\ IdleSetup
  /\ IdleRest
  /\ IdleServices

\* story-write, after the text of a page is settled: count it and decide
\* whether it is sent for adjustment (the outline's target is 100 by default)
StoryWriteCount ==
  /\ written = None
  /\ written' = [words  |-> StoryWriteCountWords(pageText),
                 adjust |-> StoryWriteNeedsAdjust(pageText, readingLevel, 100)]
  /\ UNCHANGED <<pageText, readingLevel, validated, shown, wrapVars, editorVars, exportVars, panelVars, previewVars, setupVars, restVars, serviceVars>>

\* lib/validation: validatePage(text, readingLevel)
ValidatePage ==
  /\ validated = None
  /\ validated' = validatePage(pageText, readingLevel)
  /\ UNCHANGED <<pageText, readingLevel, written, shown, wrapVars, editorVars, exportVars, panelVars, previewVars, setupVars, restVars, serviceVars>>

\* PageEditor: the word count and the badge shown for the page
ShowWordCount ==
  /\ shown = None
  /\ shown' = [wordCount |-> countWords(pageText),
               status    |-> getWordCountStatus(countWords(pageText), readingLevel).status]
  /\ UNCHANGED <<pageText, readingLevel, written, validated, wrapVars, editorVars, exportVars, panelVars, previewVars, setupVars, restVars, serviceVars>>

NextCount == StoryWriteCount \/ ValidatePage \/ ShowWordCount

SpecCount == InitCount /\ [][NextCount]_vars

-----------------------------------------------------------------------------
(* The wizard's steps: StoryGenerator *)

handleNext(step) ==
  CASE step = "setup"   -> "preview"
    [] step = "preview" -> "export"
    [] step = "export"  -> "print"
    [] OTHER            -> step

handleBack(step) ==
  CASE step = "preview" -> "setup"
    [] step = "export"  -> "preview"
    [] step = "print"   -> "export"
    [] OTHER            -> step

-----------------------------------------------------------------------------
(* The page editor: PageEditor, shown while the step is 'export' *)

\* an absent imageUrl is the empty string: both are falsy
NoImage == ""

\* page.imageLocked as a condition: a page generation has just made has no
\* such field
Locked(page) == "imageLocked" \in DOMAIN page /\ page.imageLocked

\* { ...page, imageLocked: locked }
WithLock(page, locked) ==
  [field \in DOMAIN page \cup {"imageLocked"} |->
     IF field = "imageLocked" THEN locked ELSE page[field]]

\* !!page.imageUrl || page.imageLocked
HasImage(page) == page.imageUrl # "" \/ Locked(page)

getPageStatus(page, level) ==
  LET wordCount == countWords(page.text)
      wordStatus == getWordCountStatus(wordCount, level)
      hasImage == HasImage(page)
  IN [text    |-> IF wordStatus.status = "good" THEN "complete" ELSE "warning",
      image   |-> IF hasImage THEN "complete" ELSE "warning",
      overall |-> IF wordStatus.status = "good" /\ hasImage
                  THEN "complete" ELSE "warning"]

\* pages.every(page => getPageStatus(page).overall === 'complete')
canExport(ps, level) ==
  \A i \in 1..Len(ps) : getPageStatus(ps[i], level).overall = "complete"

\* updatePageText building the page anew, without its image
updatePageTextDropsImage(ps, pageNumber, t) ==
  [i \in 1..Len(ps) |->
     IF ps[i].page = pageNumber
     THEN [page |-> ps[i].page, text |-> t, imageUrl |-> NoImage]
     ELSE ps[i]]

updatePageText(ps, pageNumber, t) ==
  [i \in 1..Len(ps) |->
     IF ps[i].page = pageNumber THEN [ps[i] EXCEPT !.text = t] ELSE ps[i]]

\* toggleImageLock flipping the lock of every page
toggleImageLockAll(ps, pageNumber) ==
  [i \in 1..Len(ps) |-> WithLock(ps[i], ~Locked(ps[i]))]

toggleImageLock(ps, pageNumber) ==
  [i \in 1..Len(ps) |->
     IF ps[i].page = pageNumber
     THEN WithLock(ps[i], ~Locked(ps[i]))
     ELSE ps[i]]

\* lib/validation validateDocument: per page, in page order, a text error if
\* validatePage rejects the text and an image error if the page has neither
\* an image nor the lock
PageErrors(page, level) ==
  (IF validatePage(page.text, level).isValid
   THEN <<>> ELSE <<[page |-> page.page, field |-> "text"]>>)
  \o
  (IF page.imageUrl # "" \/ Locked(page)
   THEN <<>> ELSE <<[page |-> page.page, field |-> "image"]>>)

RECURSIVE ErrorsFrom(_, _, _)
ErrorsFrom(ps, i, level) ==
  IF i > Len(ps) THEN <<>>
  ELSE PageErrors(ps[i], level) \o ErrorsFrom(ps, i + 1, level)

validateDocument(ps, level) == ErrorsFrom(ps, 1, level)

\* the word counts the editor's texts have at a level: just below the
\* tolerance band, on its low end, and on the target's minimum
EditorWordCounts(level) ==
  LET t == WordCountTargets(level)
  IN {t.min - WordCountTolerance - 1, t.min - WordCountTolerance, t.min}

EditorTexts(level) == {PlainText(n) : n \in EditorWordCounts(level)}

\* the pages PreviewGenerate hands over: numbered from 1 as story-write
\* returns them, the text the model wrote, an image URL where generate-images
\* returned one, no lock yet
InitEditor ==
  /\ readingLevel \in ReadingLevels
  /\ \E n \in 1..MaxPages :
       pages \in [1..n -> [page : 1..n, text : EditorTexts(readingLevel),
                           imageUrl : {NoImage, "image-url"}]]
  /\ \A i \in 1..Len(pages) : pages[i].page = i
  /\ currentStep = "export"
  /\ pageText = <<>>
  /\ written = None
  /\ validated = None
  /\ shown = None
  /\ IdleWrap
  /\ IdleExport
  /\ IdlePanel
  /\ IdlePreview
  /\ IdleSetup
  /\ IdleRest
  /\ IdleServices

\* the text area of the selected page: onChange -> updatePageText
UpdatePageText ==
  /\ currentStep = "export"
  /\ \E t \in EditorTexts(readingLevel) : \E i \in 1..Len(pages) :
       pages' = updatePageText(pages, pages[i].page, t)
  /\ UNCHANGED <<currentStep, wrapVars, countVars, exportVars, panelVars, previewVars, setupVars, restVars, serviceVars>>

\* the lock switch of the selected page: onCheckedChange -> toggleImageLock
ToggleImageLock ==
  /\ currentStep = "export"
  /\ \E i \in 1..Len(pages) : pages' = toggleImageLock(pages, pages[i].page)
  /\ UNCHANGED <<currentStep, wrapVars, countVars, exportVars, panelVars, previewVars, setupVars, restVars, serviceVars>>

\* the Export Story button: disabled = !canExport, onClick -> handleNext
ExportStory ==
  /\ currentStep = "export"
  /\ canExport(pages, readingLevel)
  /\ currentStep' = handleNext(currentStep)
  /\ UNCHANGED <<pages, wrapVars, countVars, exportVars, panelVars, previewVars, setupVars, restVars, serviceVars>>

\* the Back to Preview button: onClick -> handleBack
BackToPreview ==
  /\ currentStep = "export"
  /\ currentStep' = handleBack(currentStep)
  /\ UNCHANGED <<pages, wrapVars, countVars, exportVars, panelVars, previewVars, setupVars, restVars, serviceVars>>

NextEditor == UpdatePageText \/ ToggleImageLock \/ ExportStory \/ BackToPreview

SpecEditor == InitEditor /\ [][NextEditor]_vars

-----------------------------------------------------------------------------
(* The export-pdf function: page sizes, createPDF and the request handler.
   Lengths on a PDF page are in thousandths of a point; sizes of text are
   in points. *)

BLEED_MM == 3

\* the keys of PAGE_SIZES; the multiplication sign of the third is written x
PageSizeNames == {"A5 portrait", "A4 portrait", "210x210 mm square"}

\* the table with the print size of A4 portrait left at its content size
PAGE_SIZES_NoBleedA4 ==
  [name \in PageSizeNames |->
    CASE name = "A5 portrait" ->
           [content |-> [width |-> 148, height |-> 210],
            withBleed |-> [width |-> 154, height |-> 216]]
      [] name = "A4 portrait" ->
           [content |-> [width |-> 210, height |-> 297],
            withBleed |-> [width |-> 210, height |-> 297]]
      [] name = "210x210 mm square" ->
           [content |-> [width |-> 210, height |-> 210],
            withBleed |-> [width |-> 216, height |-> 216]]]

\* millimetres
PAGE_SIZES ==
  [name \in PageSizeNames |->
    CASE name = "A5 portrait" ->
           [content |-> [width |-> 148, height |-> 210],
            withBleed |-> [width |-> 154, height |-> 216]]
      [] name = "A4 portrait" ->
           [content |-> [width |-> 210, height |-> 297],
            withBleed |-> [width |-> 216, height |-> 303]]
      [] name = "210x210 mm square" ->
           [content |-> [width |-> 210, height |-> 210],
            withBleed |-> [width |-> 216, height |-> 216]]]

\* the value of a property no object has
undefined == [undefined |-> TRUE]

\* some of the property names every object literal inherits from
\* Object.prototype
ObjectPrototypeKeys == {"constructor", "toString", "valueOf", "hasOwnProperty"}

\* what Object.prototype holds under such a name: a function, an object
\* with no property of the tables below
Inherited == [inherited |-> TRUE]

\* table[key] of an object literal: its own property, else the inherited
\* one, else undefined; a missing key is looked up as "undefined"
Lookup(table, key) ==
  IF key \in DOMAIN table THEN table[key]
  ELSE IF key \in ObjectPrototypeKeys THEN Inherited
  ELSE undefined

\* object.field
Get(object, field) ==
  IF field \in DOMAIN object THEN object[field] ELSE undefined

\* PAGE_SIZES[config.pageSize] || PAGE_SIZES['A5 portrait']
PageSizeOf(config) ==
  LET own == Lookup(PAGE_SIZES, config.pageSize)
  IN IF own # undefined THEN own ELSE PAGE_SIZES["A5 portrait"]

\* includeBleed ? pageSize.withBleed : pageSize.content
DimensionsOf(config, includeBleed) ==
  Get(PageSizeOf(config), IF includeBleed THEN "withBleed" ELSE "content")

\* dimensions.width of undefined: createPDF throws a TypeError
createPDFThrows(config, includeBleed) == DimensionsOf(config, includeBleed) = undefined

\* generate-images: the pixels of an image for each preset
pageSizes ==
  [name \in PageSizeNames |->
    CASE name = "A5 portrait"       -> [width |-> 933, height |-> 1280]
      [] name = "A4 portrait"       -> [width |-> 1280, height |-> 1794]
      [] name = "210x210 mm square" -> [width |-> 1280, height |-> 1280]]

\* generate-images: pageSizes[pageSize] || pageSizes['A5 portrait']
imageDimensions(pageSize) ==
  LET own == Lookup(pageSizes, pageSize)
  IN IF own # undefined THEN own ELSE pageSizes["A5 portrait"]

\* 1 mm = 2.834645669 points, here to a millionth of a point
MicroPointsPerMm == 2834646

mmToPdfPoints(mm) == (mm * MicroPointsPerMm) \div 1000

\* length * (hundredths / 100)
Times(length, hundredths) == (length * hundredths) \div 100

\* Array.prototype.join on strings
RECURSIVE Join(_, _)
Join(strs, sep) ==
  IF strs = <<>> THEN ""
  ELSE IF Len(strs) = 1 THEN strs[1]
  ELSE strs[1] \o sep \o Join(Tail(strs), sep)

\* a || b on strings
OrElse(a, b) == IF a # "" THEN a ELSE b

\* page.drawText(text, {x, y, size})
Drawn(t, x, y, size) == [text |-> t, x |-> x, y |-> y, size |-> size]

coverPage(config, pageWidth, pageHeight, includeBleed) ==
  LET titleText == OrElse(Join(config.children, " & ") \o "'s Story", "Magical Story")
      title == <<Drawn(titleText, Times(pageWidth, 10), Times(pageHeight, 80),
                       IF includeBleed THEN 24 ELSE 20)>>
      subtitle ==
        IF config.storyType # ""
        THEN <<Drawn("A " \o config.storyType, Times(pageWidth, 10), Times(pageHeight, 75),
                     IF includeBleed THEN 16 ELSE 14)>>
        ELSE <<>>
      dedication ==
        IF config.personal.dedication # ""
        THEN <<Drawn(config.personal.dedication, Times(pageWidth, 10), Times(pageHeight, 20),
                     IF includeBleed THEN 14 ELSE 12)>>
        ELSE <<>>
  IN [width |-> pageWidth, height |-> pageHeight,
      texts |-> title \o subtitle \o dedication,
      rectangles |-> <<>>]

storyPage(page, pageWidth, pageHeight, includeBleed) ==
  LET size == IF includeBleed THEN 16 ELSE 14
      number == <<Drawn(ToString(page.page), Times(pageWidth, 90), Times(pageHeight, 5), 10)>>
      textLines ==
        IF page.text # <<>>
        THEN wrapText(page.text, size, Times(pageWidth, 80))
        ELSE <<>>
      story ==
        [k \in 1..Len(textLines) |->
          Drawn(textLines[k], Times(pageWidth, 10),
                Times(pageHeight, 60) - (k - 1) * (IF includeBleed THEN 20000 ELSE 18000),
                size)]
      placeholder ==
        IF includeBleed
        THEN <<Drawn("[Image Area]", Times(pageWidth, 45), Times(pageHeight, 75), 12)>>
        ELSE <<>>
      frame ==
        IF includeBleed
        THEN <<[x |-> Times(pageWidth, 10), y |-> Times(pageHeight, 65),
                width |-> Times(pageWidth, 80), height |-> Times(pageHeight, 25)]>>
        ELSE <<>>
  IN [width |-> pageWidth, height |-> pageHeight,
      texts |-> number \o story \o placeholder,
      rectangles |-> frame]

\* createPDF without its cover page
createPDFNoCover(config, ps, includeBleed) ==
  LET dimensions == DimensionsOf(config, includeBleed)
      pageWidth == mmToPdfPoints(dimensions.width)
      pageHeight == mmToPdfPoints(dimensions.height)
  IN [k \in 1..Len(ps) |-> storyPage(ps[k], pageWidth, pageHeight, includeBleed)]

\* the pages of the document, the cover first
createPDF(config, ps, includeBleed) ==
  LET dimensions == DimensionsOf(config, includeBleed)
      pageWidth == mmToPdfPoints(dimensions.width)
      pageHeight == mmToPdfPoints(dimensions.height)
  IN <<coverPage(config, pageWidth, pageHeight, includeBleed)>>
     \o [k \in 1..Len(ps) |-> storyPage(ps[k], pageWidth, pageHeight, includeBleed)]

\* Date.now()
Now == 2

\* JSON.parse(atob(token)), then the check of decoded.expires
verifyBillingToken(token) ==
  IF ~token.decodes THEN [threw |-> TRUE]
  ELSE IF token.payload.expires # 0 /\ Now > token.payload.expires THEN [threw |-> TRUE]
  ELSE [threw |-> FALSE, decoded |-> token.payload]

PaymentRequired(message) == [status |-> 402, success |-> FALSE, error |-> message]

\* the catch of the handler
ServerError(message) == [status |-> 500, success |-> FALSE, error |-> message]

\* the handler asking only whether the token is approved
serveAnyItem(req) ==
  IF "pages" \notin DOMAIN req
  THEN ServerError("Cannot read properties of undefined (reading 'length')")
  ELSE IF req.billingToken = None
  THEN PaymentRequired("Billing authorization required")
  ELSE LET tokenData == verifyBillingToken(req.billingToken)
       IN IF tokenData.threw
          THEN PaymentRequired("Payment required. Please complete billing process.")
          ELSE IF ~tokenData.decoded.approved
          THEN PaymentRequired("Payment required. Please complete billing process.")
          ELSE IF createPDFThrows(req.config, FALSE)
          THEN ServerError("Cannot read properties of undefined (reading 'width')")
          ELSE [status |-> 200, success |-> TRUE,
                webPdf |-> createPDF(req.config, req.pages, FALSE),
                printPdf |-> createPDF(req.config, req.pages, TRUE),
                webFilename |-> OrElse(Join(req.config.children, "-"), "story") \o "-web.pdf",
                printFilename |-> OrElse(Join(req.config.children, "-"), "story") \o "-print.pdf",
                pageCount |-> Len(req.pages) + 1,
                dimensions |-> PageSizeOf(req.config)]

\* the response of the handler to a POST request
serve(req) ==
  IF "pages" \notin DOMAIN req
  THEN ServerError("Cannot read properties of undefined (reading 'length')")
  ELSE IF req.billingToken = None
  THEN PaymentRequired("Billing authorization required")
  ELSE LET tokenData == verifyBillingToken(req.billingToken)
       IN IF tokenData.threw
          THEN PaymentRequired("Payment required. Please complete billing process.")
          ELSE IF tokenData.decoded.item # "export" \/ ~tokenData.decoded.approved
          THEN PaymentRequired("Payment required. Please complete billing process.")
          ELSE IF createPDFThrows(req.config, FALSE)
          THEN ServerError("Cannot read properties of undefined (reading 'width')")
          ELSE [status |-> 200, success |-> TRUE,
                webPdf |-> createPDF(req.config, req.pages, FALSE),
                printPdf |-> createPDF(req.config, req.pages, TRUE),
                webFilename |-> OrElse(Join(req.config.children, "-"), "story") \o "-web.pdf",
                printFilename |-> OrElse(Join(req.config.children, "-"), "story") \o "-print.pdf",
                pageCount |-> Len(req.pages) + 1,
                dimensions |-> PageSizeOf(req.config)]

\* The requests: the configuration of the wizard, the pages of a book in
\* any order, and a billing token or none.
Children == {<<>>, <<"Emma">>, <<"Emma", "Sam">>}

StoryTypes == {"", "Bedtime"}

Dedications == {"", "For Emma"}

\* the presets, an unknown name, a missing pageSize and a name every object
\* inherits
RequestedPageSizes == PageSizeNames \cup {"Letter", "undefined", "constructor"}

Configs ==
  {[children |-> c, storyType |-> cover[1], personal |-> [dedication |-> cover[2]],
    pageSize |-> size] :
     c \in Children, cover \in {<<"", "">>, <<"Bedtime", "For Emma">>, <<"Bedtime", "">>},
     size \in RequestedPageSizes}

\* a book whose pages carry text, every other one an image, and a book of
\* pages still empty
Books == {"written", "empty"}

\* n words of twenty letters
LongWords(n) == [i \in 1..(21 * n - 1) |-> IF i % 21 = 0 THEN " " ELSE "a"]

BookPage(book, n) ==
  IF book = "written"
  THEN [page |-> n, text |-> LongWords(n + 1),
        imageUrl |-> IF n % 2 = 1 THEN "image-url" ELSE NoImage]
  ELSE [page |-> n, text |-> <<>>, imageUrl |-> NoImage]

Orders(n) == {o \in [1..n -> 1..n] : \A i, j \in 1..n : o[i] = o[j] => i = j}

PageLists ==
  {[k \in DOMAIN o |-> BookPage(book, o[k])] :
     book \in Books, o \in UNION {Orders(n) : n \in 0..MaxPdfPages}}

Payloads ==
  [expires : {0, Now - 1, Now + 1}, item : {"export", "print"}, approved : BOOLEAN]

BillingTokens ==
  {None, [decodes |-> FALSE]} \cup {[decodes |-> TRUE, payload |-> p] : p \in Payloads}

Requests == [config : Configs, pages : PageLists, billingToken : BillingTokens]

InitExport ==
  /\ request = None
  /\ response = None
  /\ IdleWrap
  /\ IdleCount
  /\ IdleEditor
  /\ IdlePanel
  /\ IdlePreview
  /\ IdleSetup
  /\ IdleRest
  /\ IdleServices

\* a client posts a request; the handler keeps nothing between requests
PostExport ==
  /\ request = None
  /\ \E req \in Requests : request' = req
  /\ response' = None
  /\ UNCHANGED <<wrapVars, countVars, editorVars, panelVars, previewVars, setupVars, restVars, serviceVars>>

\* the handler answers it
ServeExport ==
  /\ request # None
  /\ response = None
  /\ response' = serve(request)
  /\ UNCHANGED <<request, wrapVars, countVars, editorVars, panelVars, previewVars, setupVars, restVars, serviceVars>>

NextExport == PostExport \/ ServeExport

SpecExport == InitExport /\ [][NextExport]_vars

-----------------------------------------------------------------------------
(* The export panel: the client of export-pdf *)

\* supabase.functions.invoke: a response outside 2xx is returned as an
\* error, which invokeFunction throws
InvokeThrows(res) == res.status # 200

\* exportPDF(billingToken) up to its await: an empty or missing page list is
\* refused with a toast, anything else is posted to export-pdf
ExportPDFCall(billingToken) ==
  IF pages = <<>>
  THEN /\ toast' = "No pages to export"
       /\ UNCHANGED <<isExporting, request, response>>
  ELSE /\ isExporting' = TRUE
       /\ request' = [config |-> panelConfig, pages |-> pages, billingToken |-> billingToken]
       /\ response' = None
       /\ UNCHANGED toast

\* the configurations of the wizard: a preset page size, a story type
PanelConfigs == {c \in Configs : c.pageSize \in PageSizeNames /\ c.storyType # ""}

\* config.pages, as generation leaves them: ascending, or none yet
PanelPageLists ==
  {[k \in 1..n |-> BookPage(book, k)] : book \in Books, n \in 0..MaxPdfPages}

\* the tokens a checkout for item 'export' hands over, some used too late
CheckoutTokens ==
  {[decodes |-> TRUE, payload |-> [expires |-> e, item |-> "export", approved |-> TRUE]] :
     e \in {Now - 1, Now + 1}}

InitPanel ==
  /\ panelConfig \in PanelConfigs
  /\ pages \in PanelPageLists
  /\ currentStep = "print"
  /\ exports = None
  /\ isExporting = FALSE
  /\ showExportCheckout = FALSE
  /\ toast = ""
  /\ firstExportUsed \in BOOLEAN
  /\ IdleWrap
  /\ IdleCount
  /\ IdleExport
  /\ IdlePreview
  /\ IdleSetup
  /\ IdleRest
  /\ IdleServices

\* the Generate PDFs button (disabled while exporting): handleExportClick
HandleExportClick ==
  /\ panelConfig # None
  /\ ~isExporting
  /\ IF ~firstExportUsed
     THEN /\ ExportPDFCall(None)
          /\ UNCHANGED showExportCheckout
     ELSE /\ showExportCheckout' = TRUE
          /\ UNCHANGED <<isExporting, request, response, toast>>
  /\ UNCHANGED <<panelConfig, exports, firstExportUsed, editorVars, wrapVars, countVars, previewVars, setupVars, restVars, serviceVars>>

\* the checkout sheet succeeds: handleExportSuccess
HandleExportSuccess ==
  /\ showExportCheckout
  /\ ~isExporting
  /\ showExportCheckout' = FALSE
  /\ \E billingToken \in CheckoutTokens : ExportPDFCall(billingToken)
  /\ UNCHANGED <<panelConfig, exports, firstExportUsed, editorVars, wrapVars, countVars, previewVars, setupVars, restVars, serviceVars>>

\* the checkout sheet is cancelled
CancelExportCheckout ==
  /\ showExportCheckout
  /\ showExportCheckout' = FALSE
  /\ UNCHANGED <<panelConfig, exports, isExporting, toast, firstExportUsed,
                 exportVars, editorVars, wrapVars, countVars, previewVars, setupVars, restVars, serviceVars>>

\* exportPDF recording the export on the pages themselves
ExportPDFReturnMarksPages ==
  /\ isExporting
  /\ response # None
  /\ IF InvokeThrows(response)
     THEN /\ toast' = "Failed to generate PDFs"
          /\ UNCHANGED <<exports, firstExportUsed, pages>>
     ELSE /\ exports' = [webPdfUrl |-> response.webPdf, printPdfUrl |-> response.printPdf]
          /\ firstExportUsed' = TRUE
          /\ toast' = "PDFs generated successfully!"
          /\ pages' = [k \in 1..Len(pages) |->
                         [page |-> pages[k].page, text |-> pages[k].text,
                          imageUrl |-> pages[k].imageUrl, exported |-> TRUE]]
  /\ isExporting' = FALSE
  /\ showExportCheckout' = FALSE
  /\ request' = None
  /\ response' = None
  /\ UNCHANGED <<panelConfig, currentStep, wrapVars, countVars, previewVars, setupVars, restVars, serviceVars>>

\* exportPDF after its await: try, catch and finally
ExportPDFReturn ==
  /\ isExporting
  /\ response # None
  /\ IF InvokeThrows(response)
     THEN /\ toast' = "Failed to generate PDFs"
          /\ UNCHANGED <<exports, firstExportUsed>>
     ELSE /\ exports' = [webPdfUrl |-> response.webPdf, printPdfUrl |-> response.printPdf]
          /\ firstExportUsed' = TRUE
          /\ toast' = "PDFs generated successfully!"
  /\ isExporting' = FALSE
  /\ showExportCheckout' = FALSE
  /\ request' = None
  /\ response' = None
  /\ UNCHANGED <<panelConfig, editorVars, wrapVars, countVars, previewVars, setupVars, restVars, serviceVars>>

NextPanel ==
  \/ HandleExportClick
  \/ HandleExportSuccess
  \/ CancelExportCheckout
  \/ ServeExport
  \/ ExportPDFReturn

SpecPanel == InitPanel /\ [][NextPanel]_vars

-----------------------------------------------------------------------------
(* story-write: one request, the pages written concurrently *)

\* the most entries of an outline
MaxOutlinePages == 2

\* outline.pages, each entry by its page number: distinct page numbers in
\* any order, and one outline that names a page twice
Outlines ==
  {o \in UNION {[1..n -> 1..MaxOutlinePages] : n \in 0..MaxOutlinePages} :
     \A i, j \in DOMAIN o : o[i] = o[j] => i = j}
    \cup {<<1, 1>>}

\* `if (!pageText || pageText.length < 10)`: the least length that is kept
MinTextLength == 10

\* pageOutline.wordCount || pageOutline.wordsTarget || 100
DefaultTarget == 100

\* the words of the hard-coded fallback text when the names of the child,
\* the pet and the setting are one word each
FallbackWords == 29

FallbackText == PlainText(FallbackWords)

\* what the provider may put in choices[0].message.content: white space
\* only, three characters, a text inside the band of the level, and a text
\* of twelve words
Completions(level) ==
  {<<" ">>, <<"H", "i", ".">>, PlainText(WordCountTargets(level).min), PlainText(12)}

\* what a fetch of the provider comes to: a 2xx response with a completion,
\* a response that is not ok, or an exception (the network, a body without
\* choices where the code reads choices[0] unguarded)
Answers(level) ==
  {[kind |-> "ok", content |-> c] : c \in Completions(level)}
    \cup {[kind |-> "notOk", content |-> <<>>], [kind |-> "threw", content |-> <<>>]}

\* where the callback of one page stands: awaiting a fetch, returned, or
\* thrown out of
Running(stage, t) == [pc |-> stage, text |-> t, error |-> ""]

Rejected(message) == [pc |-> "rejected", text |-> <<>>, error |-> message]

\* !pageText || pageText.length < 10
TooShort(t) == t = <<>> \/ Len(t) < MinTextLength

\* lines 167-180: count the words and ask for an adjustment when out of range
BeforeAdjust(t, level) ==
  IF StoryWriteNeedsAdjust(t, level, DefaultTarget)
  THEN Running("adjust", t)
  ELSE Running("done", t)

\* lines 138 and 160: the simplified request when the text is too short
BeforeSimple(t, level) ==
  IF TooShort(t) THEN Running("simple", t) ELSE BeforeAdjust(t, level)

\* the primary request with its response.ok test left out
AfterPrimaryIgnoresStatus(page, answer, level) ==
  CASE answer.kind = "threw" -> Rejected("fetch failed")
    [] OTHER ->
         LET t == Trim(answer.content)
         IN IF t = <<>> THEN Running("regen", t) ELSE BeforeSimple(t, level)

\* lines 105-118: the primary request has answered
AfterPrimary(page, answer, level) ==
  CASE answer.kind = "threw" -> Rejected("fetch failed")
    [] answer.kind = "notOk" ->
         Rejected("OpenAI API error for page " \o ToString(page))
    [] answer.kind = "ok" ->
         LET t == Trim(answer.content)
         IN IF t = <<>> THEN Running("regen", t) ELSE BeforeSimple(t, level)

\* lines 132-138: the regeneration has answered
AfterRegen(t, answer, level) ==
  CASE answer.kind = "threw" -> Rejected("fetch failed")
    [] answer.kind = "notOk" -> BeforeSimple(t, level)
    [] answer.kind = "ok" -> BeforeSimple(Trim(answer.content), level)

\* lines 153-165: the simplified request has answered; the hard-coded text
\* when the page is still too short
AfterSimple(t, answer, level) ==
  CASE answer.kind = "threw" -> Rejected("fetch failed")
    [] OTHER ->
         LET got == IF answer.kind = "ok" THEN Trim(answer.content) ELSE t
         IN BeforeAdjust(IF TooShort(got) THEN FallbackText ELSE got, level)

\* lines 195-204: the adjustment has answered
AfterAdjust(t, answer) ==
  CASE answer.kind = "threw" -> Rejected("fetch failed")
    [] answer.kind = "notOk" -> Running("done", t)
    [] answer.kind = "ok" -> Running("done", Trim(answer.content))

\* completedPages left in the order of the outline
SortByPageKeepsOrder(s) == s

\* Array.prototype.sort((a, b) => a.page - b.page): stable, ascending
RECURSIVE SortByPage(_)
SortByPage(s) ==
  IF s = <<>> THEN <<>>
  ELSE LET sorted == SortByPage(SubSeq(s, 1, Len(s) - 1))
           x == s[Len(s)]
           k == Cardinality({i \in DOMAIN sorted : sorted[i].page <= x.page})
       IN SubSeq(sorted, 1, k) \o <<x>> \o SubSeq(sorted, k + 1, Len(sorted))

\* Promise.all and the handler around it, after the callback of entry i has
\* moved: the first rejection is caught and answered with status 500, the
\* last return answers with the pages, and a response once given stays
Settle(tasks, i, prior) ==
  IF prior # None THEN prior
  ELSE IF tasks[i].pc = "rejected"
  THEN [status |-> 500, error |-> tasks[i].error]
  ELSE IF \A j \in DOMAIN tasks : tasks[j].pc = "done"
  THEN [status |-> 200,
        pages |-> SortByPage([j \in DOMAIN tasks |->
                                [page |-> tasks[j].page, text |-> tasks[j].text]])]
  ELSE None

InitWrite ==
  /\ outline \in Outlines
  /\ writeLevel \in ReadingLevels
  /\ openaiKey \in BOOLEAN
  /\ task = <<>>
  /\ writeResponse = None
  /\ IdleWrap
  /\ IdleCount
  /\ IdleEditor
  /\ IdleExport
  /\ IdlePanel
  /\ IdlePreview
  /\ IdleSetup
  /\ IdleRest
  /\ IdleImages

\* lines 13-31: the request is read, the key is looked up and one callback
\* per outline entry runs up to its first fetch
StartWrite ==
  /\ task = <<>>
  /\ writeResponse = None
  /\ IF ~openaiKey
     THEN /\ task' = <<>>
          /\ writeResponse' =
               [status |-> 500,
                error  |-> "OpenAI API key not configured. Add OPENAI_API_KEY to your project environment."]
     ELSE /\ task' = [i \in DOMAIN outline |->
                        [page |-> outline[i], primary |-> "pending",
                         pc |-> "primary", text |-> <<>>, error |-> ""]]
          /\ writeResponse' =
               IF outline = <<>> THEN [status |-> 200, pages |-> <<>>] ELSE None
  /\ UNCHANGED <<outline, writeLevel, openaiKey, clientVars, imageVars>>

\* the callback of entry i moves on to `next`; the handler answers if that
\* settles Promise.all
Moved(i, primary, next) ==
  LET tasks == [task EXCEPT ![i] = [page    |-> task[i].page,
                                    primary |-> primary,
                                    pc      |-> next.pc,
                                    text    |-> next.text,
                                    error   |-> next.error]]
  IN /\ task' = tasks
     /\ writeResponse' = Settle(tasks, i, writeResponse)
     /\ UNCHANGED <<outline, writeLevel, openaiKey, clientVars, imageVars>>

\* the primary fetch of one page answers (its status is logged)
PrimaryAnswer ==
  \E i \in DOMAIN task :
    /\ task[i].pc = "primary"
    /\ \E answer \in Answers(writeLevel) :
         Moved(i, answer.kind, AfterPrimary(task[i].page, answer, writeLevel))

RegenAnswer ==
  \E i \in DOMAIN task :
    /\ task[i].pc = "regen"
    /\ \E answer \in Answers(writeLevel) :
         Moved(i, task[i].primary, AfterRegen(task[i].text, answer, writeLevel))

SimpleAnswer ==
  \E i \in DOMAIN task :
    /\ task[i].pc = "simple"
    /\ \E answer \in Answers(writeLevel) :
         Moved(i, task[i].primary, AfterSimple(task[i].text, answer, writeLevel))

AdjustAnswer ==
  \E i \in DOMAIN task :
    /\ task[i].pc = "adjust"
    /\ \E answer \in Answers(writeLevel) :
         Moved(i, task[i].primary, AfterAdjust(task[i].text, answer))

NextWrite ==
  \/ StartWrite
  \/ PrimaryAnswer
  \/ RegenAnswer
  \/ SimpleAnswer
  \/ AdjustAnswer

SpecWrite == InitWrite /\ [][NextWrite]_vars

-----------------------------------------------------------------------------
(* generate-images: one request, the prompts served one after the other *)

\* the most prompts of a request
MaxPrompts == 2

\* the prompts of a request, each by its page number
PromptLists == UNION {[1..n -> 1..MaxPrompts] : n \in 0..MaxPrompts}

\* the two handlers: index.ts asks one provider (Gemini), the other asks
\* Hugging Face first and OpenAI second; and the keys each one reads
ImageVariants == {"Gemini", "HuggingFace"}

KeysOf(variant) ==
  IF variant = "Gemini" THEN {"GEMINI_API_KEY"} ELSE {"HF_TOKEN", "OPENAI_API_KEY"}

\* `if (!geminiKey)`, `if (!hfToken && !openaiKey)`
KeyMissing(variant, keys) == keys \cap KeysOf(variant) = {}

\* `${value}` of a field that may be absent
FieldText(object, field) ==
  IF field \in DOMAIN object THEN ToString(object[field]) ELSE "undefined"

\* `https://picsum.photos/${dimensions.width}/${dimensions.height}?random=${promptData.page}`
PlaceholderUrl(dimensions, page) ==
  "https://picsum.photos/" \o FieldText(dimensions, "width") \o "/"
    \o FieldText(dimensions, "height") \o "?random=" \o ToString(page)

\* `data:image/png;base64,${base64Data}`, the data being those of the provider
DataUrl(provider) == "data:image/png;base64," \o provider

\* what a fetch of a provider comes to: image data, a 2xx response without
\* image data, a response that is not ok, or an exception
ProviderOutcomes == {"image", "noData", "notOk", "threw"}

\* the first fetch of an iteration of the loop
FirstFetch(variant, keys) ==
  IF variant = "Gemini" THEN "Gemini"
  ELSE IF "HF_TOKEN" \in keys THEN "HuggingFace"
  ELSE "OpenAI"

\* an iteration whose catch block pushes an entry without a URL
AfterFetchEmptyOnThrow(fetched, outcome, keys, dimensions, page) ==
  IF outcome = "threw" THEN [url |-> "", then |-> "push"]
  ELSE IF outcome = "image" THEN [url |-> DataUrl(fetched), then |-> "push"]
  ELSE IF fetched = "HuggingFace" /\ "OPENAI_API_KEY" \in keys
  THEN [url |-> "", then |-> "OpenAI"]
  ELSE [url |-> PlaceholderUrl(dimensions, page), then |-> "push"]

\* the rest of an iteration after a fetch has answered: the entry to push,
\* or the next provider to ask
AfterFetch(fetched, outcome, keys, dimensions, page) ==
  IF outcome = "threw" THEN [url |-> PlaceholderUrl(dimensions, page), then |-> "push"]
  ELSE IF outcome = "image" THEN [url |-> DataUrl(fetched), then |-> "push"]
  ELSE IF fetched = "HuggingFace" /\ "OPENAI_API_KEY" \in keys
  THEN [url |-> "", then |-> "OpenAI"]
  ELSE [url |-> PlaceholderUrl(dimensions, page), then |-> "push"]

InitImages ==
  /\ prompts \in PromptLists
  /\ imagePageSize \in RequestedPageSizes
  /\ imageVariant \in ImageVariants
  /\ imageKeys \in SUBSET KeysOf(imageVariant)
  /\ promptAt = 0
  /\ awaiting = "received"
  /\ calls = <<>>
  /\ images = <<>>
  /\ imagesResponse = None
  /\ IdleWrap
  /\ IdleCount
  /\ IdleEditor
  /\ IdleExport
  /\ IdlePanel
  /\ IdlePreview
  /\ IdleSetup
  /\ IdleRest
  /\ IdleWrite

\* the request is read and the keys are looked up; the loop runs up to its
\* first fetch
StartImages ==
  /\ awaiting = "received"
  /\ IF KeyMissing(imageVariant, imageKeys)
     THEN /\ imagesResponse' =
               [status |-> 500,
                error  |-> IF imageVariant = "Gemini" THEN "GEMINI_API_KEY is required"
                           ELSE "HF_TOKEN or OPENAI_API_KEY is required"]
          /\ awaiting' = "done"
          /\ promptAt' = 0
     ELSE IF prompts = <<>>
     THEN /\ imagesResponse' = [status |-> 200, images |-> <<>>]
          /\ awaiting' = "done"
          /\ promptAt' = 0
     ELSE /\ imagesResponse' = None
          /\ awaiting' = FirstFetch(imageVariant, imageKeys)
          /\ promptAt' = 1
  /\ UNCHANGED <<prompts, imagePageSize, imageVariant, imageKeys, calls, images,
                 clientVars, writeVars>>

\* the fetch the loop awaits answers: the call is noted, the iteration runs
\* on to its next fetch or pushes its entry, and the loop runs on to the
\* fetch of the next prompt or to the response
FetchAnswers(fetched) ==
  /\ awaiting = fetched
  /\ \E outcome \in ProviderOutcomes :
       LET page == prompts[promptAt]
           step == AfterFetch(fetched, outcome, imageKeys,
                              imageDimensions(imagePageSize), page)
           pushed == IF step.then = "OpenAI" THEN images
                     ELSE Append(images, [page |-> page, url |-> step.url])
       IN /\ calls' = Append(calls, [prompt |-> promptAt, provider |-> fetched,
                                     outcome |-> outcome])
          /\ images' = pushed
          /\ IF step.then = "OpenAI"
             THEN /\ awaiting' = "OpenAI"
                  /\ UNCHANGED <<promptAt, imagesResponse>>
             ELSE IF promptAt < Len(prompts)
             THEN /\ awaiting' = FirstFetch(imageVariant, imageKeys)
                  /\ promptAt' = promptAt + 1
                  /\ UNCHANGED imagesResponse
             ELSE /\ awaiting' = "done"
                  /\ imagesResponse' = [status |-> 200, images |-> pushed]
                  /\ UNCHANGED promptAt
  /\ UNCHANGED <<prompts, imagePageSize, imageVariant, imageKeys, clientVars, writeVars>>

GeminiAnswer == FetchAnswers("Gemini")

HuggingFaceAnswer == FetchAnswers("HuggingFace")

OpenAIAnswer == FetchAnswers("OpenAI")

NextImages ==
  \/ StartImages
  \/ GeminiAnswer
  \/ HuggingFaceAnswer
  \/ OpenAIAnswer

SpecImages == InitImages /\ [][NextImages]_vars

-----------------------------------------------------------------------------
(* The generation screen: PreviewGenerate, shown while the step is 'preview' *)

\* the most times the screen is mounted in one behaviour
MaxMounts == 2

\* what the setup form can put in the fields validateConfig reads: the story
\* type and the setting are typed or chosen, characters are added and
\* removed, the slider of the length runs from 6 to 20
StoryConfigs ==
  [contentSafety : BOOLEAN,
   storyType     : {<<>>, <<" ">>, <<"z", "o", "o">>},
   setting       : {<<>>, <<"s", "e", "a">>},
   characters    : {<<>>, <<"Fox">>},
   lengthPages   : {10, 20}]

\* validateConfig without its first rule
validateConfigSkipsSafety(config) ==
  (IF Trim(config.storyType) = <<>> THEN <<"storyType">> ELSE <<>>)
    \o (IF Trim(config.setting) = <<>> THEN <<"setting">> ELSE <<>>)
    \o (IF Len(config.characters) = 0 THEN <<"characters">> ELSE <<>>)
    \o (IF config.lengthPages < 6 \/ config.lengthPages > 20
        THEN <<"lengthPages">> ELSE <<>>)

\* state.ts validateConfig: the fields in error, in the order of the rules
validateConfig(config) ==
  (IF ~config.contentSafety THEN <<"contentSafety">> ELSE <<>>)
    \o (IF Trim(config.storyType) = <<>> THEN <<"storyType">> ELSE <<>>)
    \o (IF Trim(config.setting) = <<>> THEN <<"setting">> ELSE <<>>)
    \o (IF Len(config.characters) = 0 THEN <<"characters">> ELSE <<>>)
    \o (IF config.lengthPages < 6 \/ config.lengthPages > 20
        THEN <<"lengthPages">> ELSE <<>>)

\* state.ts canProceedToNext
canProceedToNext(config) == Len(validateConfig(config)) = 0

\* the two versions of the component: the later one validates the
\* configuration, keeps isGenerating and reports other progress values
Screens == {"validating", "plain"}

\* the argument of updateProgress / setProgress before each call and at the end
ProgressAt(version, step) ==
  CASE step = "planning" -> IF version = "validating" THEN 5 ELSE 10
    [] step = "writing"  -> IF version = "validating" THEN 25 ELSE 30
    [] step = "images"   -> IF version = "validating" THEN 70 ELSE 60
    [] step = "complete" -> 100

\* writeResponse.pages as the client receives them, page numbers and texts:
\* no page, one page, two pages
WrittenPages == {[i \in 1..n |-> [page |-> i, text |-> PlainText(1)]] : n \in {0, 1, 2}}

\* pagesWithImages: { ...page, imageUrl: imageData?.url }
pagesWithImages(storyPages) ==
  [i \in DOMAIN storyPages |->
    [page |-> storyPages[i].page, text |-> storyPages[i].text, imageUrl |-> "image-url"]]

\* canProceed = currentStep === 'complete' && config.pages && config.pages.length > 0
canProceed == generationStep = "complete" /\ pages # <<>>

\* {currentStep === 'idle' && <Button onClick={generateStory} disabled={isGenerating}>}
GenerateOffered == currentStep = "preview" /\ generationStep = "idle" /\ ~isGenerating

\* useState('idle'), useState(0), useState(null), useState(false): the state
\* hooks of a component that has just been mounted (null is storyPages "")
FreshScreen ==
  /\ generationStep' = "idle"
  /\ progress' = 0
  /\ error' = ""
  /\ isGenerating' = FALSE

InitPreview ==
  /\ screen \in Screens
  /\ generationStep = "idle"
  /\ progress = 0
  /\ error = ""
  /\ isGenerating = FALSE
  /\ mount = 1
  /\ runs = <<>>
  /\ pages = <<>>
  /\ currentStep = "preview"
  /\ storyConfig \in {c \in StoryConfigs : canProceedToNext(c)}
  /\ IdleWrap
  /\ IdleCount
  /\ IdleExport
  /\ IdlePanel
  /\ IdleRest
  /\ IdleServices

\* the calls of generateStory other than the one at position r
Others(r) == SelectSeq([i \in DOMAIN runs |-> [at |-> i, run |-> runs[i]]],
                       LAMBDA e : e.at # r)

Without(r) == [i \in DOMAIN Others(r) |-> Others(r)[i].run]

\* a state setter called by the run at position r acts on the component that
\* started the run, and only while that component is mounted
Mounted(r) == runs[r].mount = mount /\ currentStep = "preview"

\* the catch block of generateStory and the statement after it
Catch(r, message) ==
  /\ IF Mounted(r)
     THEN /\ error' = message
          /\ generationStep' = "idle"
          /\ progress' = 0
          /\ isGenerating' = FALSE
     ELSE UNCHANGED <<generationStep, progress, error, isGenerating>>
  /\ runs' = Without(r)

\* a click on 'Generate Story': generateStory up to its first await; the
\* later version returns early when validateStoryConfig reports errors
GenerateStory ==
  /\ GenerateOffered
  /\ \E valid \in BOOLEAN :
       IF screen = "validating" /\ ~valid
       THEN /\ error' = "Please fix these issues"
            /\ UNCHANGED <<generationStep, progress, isGenerating, runs>>
       ELSE /\ error' = ""
            /\ generationStep' = "planning"
            /\ isGenerating' = (screen = "validating")
            /\ progress' = ProgressAt(screen, "planning")
            /\ runs' = Append(runs, [mount |-> mount, at |-> "planning", pages |-> <<>>,
                                  config |-> storyConfig])
  /\ UNCHANGED <<screen, mount, pages, currentStep, wrapVars, countVars, exportVars,
                 panelVars, setupVars, restVars, serviceVars>>

\* api.planStory returns or throws
PlanReturns ==
  \E r \in DOMAIN runs :
    /\ runs[r].at = "planning"
    /\ \E ok \in BOOLEAN :
         IF ok
         THEN /\ runs' = [runs EXCEPT ![r].at = "writing"]
              /\ IF Mounted(r)
                 THEN /\ progress' = ProgressAt(screen, "writing")
                      /\ generationStep' = "writing"
                 ELSE UNCHANGED <<progress, generationStep>>
              /\ UNCHANGED <<error, isGenerating>>
         ELSE Catch(r, "Failed to plan story")
    /\ UNCHANGED <<screen, mount, pages, currentStep, wrapVars, countVars, exportVars,
                   panelVars, setupVars, restVars, serviceVars>>

\* api.writeStory returns or throws
WriteReturns ==
  \E r \in DOMAIN runs :
    /\ runs[r].at = "writing"
    /\ \/ \E storyPages \in WrittenPages :
            /\ runs' = [runs EXCEPT ![r].at = "images", ![r].pages = storyPages]
            /\ pages' = storyPages
            /\ IF Mounted(r)
               THEN /\ progress' = ProgressAt(screen, "images")
                    /\ generationStep' = "images"
               ELSE UNCHANGED <<progress, generationStep>>
            /\ UNCHANGED <<error, isGenerating>>
       \/ /\ Catch(r, "Failed to write story")
          /\ UNCHANGED pages
    /\ UNCHANGED <<screen, mount, currentStep, wrapVars, countVars, exportVars,
                   panelVars, setupVars, restVars, serviceVars>>

\* api.generateImages returns or throws
ImagesReturn ==
  \E r \in DOMAIN runs :
    /\ runs[r].at = "images"
    /\ \/ /\ runs' = Without(r)
          /\ pages' = pagesWithImages(runs[r].pages)
          /\ IF Mounted(r)
             THEN /\ progress' = ProgressAt(screen, "complete")
                  /\ generationStep' = "complete"
                  /\ isGenerating' = FALSE
             ELSE UNCHANGED <<progress, generationStep, isGenerating>>
          /\ UNCHANGED error
       \/ /\ Catch(r, "Failed to generate images")
          /\ UNCHANGED pages
    /\ UNCHANGED <<screen, mount, currentStep, wrapVars, countVars, exportVars,
                   panelVars, setupVars, restVars, serviceVars>>

\* 'Back to Setup', never disabled: the wizard goes back and the screen is
\* unmounted, its state hooks with it; a run in flight goes on
OnBack ==
  /\ currentStep = "preview"
  /\ currentStep' = handleBack(currentStep)
  /\ FreshScreen
  /\ UNCHANGED <<screen, mount, runs, pages, wrapVars, countVars, exportVars,
                 panelVars, setupVars, restVars, serviceVars>>

\* 'Edit & Export', rendered when canProceed: the wizard goes on to the editor
OnNext ==
  /\ currentStep = "preview"
  /\ canProceed
  /\ currentStep' = handleNext(currentStep)
  /\ FreshScreen
  /\ UNCHANGED <<screen, mount, runs, pages, wrapVars, countVars, exportVars,
                 panelVars, setupVars, restVars, serviceVars>>

\* the setup form's onNext: the screen is mounted anew
SetupNext ==
  /\ currentStep = "setup"
  /\ canProceedToNext(storyConfig)
  /\ mount < MaxMounts
  /\ currentStep' = handleNext(currentStep)
  /\ mount' = mount + 1
  /\ FreshScreen
  /\ UNCHANGED <<screen, runs, pages, wrapVars, countVars, exportVars,
                 panelVars, setupVars, restVars, serviceVars>>

NextPreview ==
  \/ GenerateStory
  \/ PlanReturns
  \/ WriteReturns
  \/ ImagesReturn
  \/ OnBack
  \/ OnNext
  \/ SetupNext

SpecPreview == InitPreview /\ [][NextPreview]_vars

-----------------------------------------------------------------------------
(* The wizard from its first screen: the setup form, then generation *)

\* SetupForm: onConfigChange with one of the validated fields
UpdateConfig ==
  /\ currentStep = "setup"
  /\ \E c \in StoryConfigs :
       /\ Cardinality({f \in DOMAIN c : c[f] # storyConfig[f]}) = 1
       /\ storyConfig' = c
  /\ UNCHANGED <<wrapVars, countVars, editorVars, exportVars, panelVars, previewVars,
                 restVars, serviceVars>>

InitWizard ==
  /\ screen \in Screens
  /\ generationStep = "idle"
  /\ progress = 0
  /\ error = ""
  /\ isGenerating = FALSE
  /\ mount = 0
  /\ runs = <<>>
  /\ pages = <<>>
  /\ currentStep = "setup"
  /\ storyConfig = initialConfig
  /\ IdleWrap
  /\ IdleCount
  /\ IdleExport
  /\ IdlePanel
  /\ IdleRest
  /\ IdleServices

NextWizard ==
  \/ UpdateConfig
  \/ NextPreview

SpecWizard == InitWizard /\ [][NextWizard]_vars

-----------------------------------------------------------------------------
(* Properties of the word counts *)

\* the number of maximal runs of non-white-space characters of t
WordRuns(t) ==
  Cardinality({i \in 1..Len(t) : ~IsWs(t[i]) /\ (i = 1 \/ IsWs(t[i - 1]))})

\* the reading-level table of the specification
TargetTable(level) ==
  CASE level = "Toddler 2-3" -> <<60, 80>>
    [] level = "Early 4-5"   -> <<80, 120>>
    [] level = "Primary 6-8" -> <<120, 150>>

\* C7: validatePage accepts exactly the word counts in [min-15, max+15];
\* the displayed status is good exactly on [min, max], low below, high above;
\* so good implies valid, the margins are valid though low or high (Early 4-5:
\* 65 valid and low, 64 invalid), and no words is low and invalid everywhere.
ValidatePageBands ==
  (validated # None /\ shown # None) =>
    LET n == WordRuns(pageText)
        min == TargetTable(readingLevel)[1]
        max == TargetTable(readingLevel)[2]
    IN /\ validated.isValid <=> (n >= min - 15 /\ n <= max + 15)
       /\ shown.status = "good" <=> (n >= min /\ n <= max)
       /\ shown.status = "low" <=> n < min
       /\ shown.status = "high" <=> n > max
       /\ shown.status = "good" => validated.isValid
       /\ n = 0 => (shown.status = "low" /\ ~validated.isValid)
       /\ (readingLevel = "Early 4-5" /\ n = 65) =>
            (validated.isValid /\ shown.status = "low")
       /\ (readingLevel = "Early 4-5" /\ n = 64) => ~validated.isValid

\* C7 witness: an Early 4-5 page of 65 words, validated and shown: valid
\* and low
ValidatePageBandsWitness ==
  /\ validated # None
  /\ shown # None
  /\ readingLevel = "Early 4-5"
  /\ WordRuns(pageText) = 65
  /\ validated.isValid
  /\ shown.status = "low"

\* C8: story-write's count, validatePage's count and the editor's count of a
\* text are all the number of its maximal runs of non-white-space characters
\* (0 for empty and white-space-only text), and story-write asks for an
\* adjustment exactly when the editor does not show good.
CountersAgree ==
  /\ written # None => written.words = WordRuns(pageText)
  /\ validated # None => validated.wordCount = WordRuns(pageText)
  /\ shown # None => shown.wordCount = WordRuns(pageText)
  /\ (written # None /\ shown # None) =>
       (~written.adjust <=> shown.status = "good")

\* C8 witness: a text that starts and ends with white space and has runs of
\* it, counted by all three and in range for both
CountersAgreeWitness ==
  /\ written # None
  /\ validated # None
  /\ shown # None
  /\ Len(pageText) > 2
  /\ IsWs(pageText[1])
  /\ IsWs(pageText[Len(pageText)])
  /\ \E i \in 1..(Len(pageText) - 1) : IsWs(pageText[i]) /\ IsWs(pageText[i + 1])
  /\ written.words >= 60
  /\ ~written.adjust
  /\ shown.status = "good"

-----------------------------------------------------------------------------
(* Properties of the page editor *)

\* a page is export-ready: its word count is inside the tolerance band of the
\* level and it has an image or the lock
ExportReady(page, level) ==
  LET n == WordRuns(page.text)
  IN /\ n >= TargetTable(level)[1] - 15
     /\ n <= TargetTable(level)[2] + 15
     /\ (page.imageUrl # "" \/ Locked(page))

\* C2 (as claimed): the editor's Export Story button is enabled (canExport,
\* the guard of ExportStory) if and only if every page is export-ready; a
\* page shown low or high inside the tolerance band does not block it.
ExportEnabledIffReady ==
  currentStep = "export" =>
    (canExport(pages, readingLevel) <=>
       \A i \in 1..Len(pages) : ExportReady(pages[i], readingLevel))

\* the errors of the list errs that name the page numbered n
ErrorsOfPage(errs, n) == SelectSeq(errs, LAMBDA e : e.page = n)

\* validateDocument reports, per page, a text error iff the word count is
\* outside the tolerance band validatePage accepts, and an image error iff
\* image and lock are both missing
DocumentErrorsExact(errs) ==
  /\ \A k \in 1..Len(errs) :
       /\ \E i \in 1..Len(pages) : errs[k].page = pages[i].page
       /\ errs[k].field \in {"text", "image"}
  /\ \A i \in 1..Len(pages) :
       LET mine == ErrorsOfPage(errs, pages[i].page)
           n == WordRuns(pages[i].text)
           textBad == \/ n < TargetTable(readingLevel)[1] - 15
                      \/ n > TargetTable(readingLevel)[2] + 15
           imageBad == pages[i].imageUrl = "" /\ ~Locked(pages[i])
       IN /\ Len(mine) \in 0..2
          /\ Len(SelectSeq(mine, LAMBDA e : e.field = "text"))
               = (IF textBad THEN 1 ELSE 0)
          /\ Len(SelectSeq(mine, LAMBDA e : e.field = "image"))
               = (IF imageBad THEN 1 ELSE 0)
          /\ (imageBad /\ ~textBad) =>
               mine = <<[page |-> pages[i].page, field |-> "image"]>>

\* switching the lock of a page without image on removes that page's image
\* error and changes the errors of no other page
LockRemovesImageError(errs) ==
  \A i \in 1..Len(pages) :
    (pages[i].imageUrl = "" /\ ~Locked(pages[i])) =>
       LET locked == toggleImageLock(pages, pages[i].page)
           after  == validateDocument(locked, readingLevel)
       IN /\ locked[i].imageLocked
          /\ ErrorsOfPage(after, pages[i].page)
               = SelectSeq(ErrorsOfPage(errs, pages[i].page),
                           LAMBDA e : e.field # "image")
          /\ \A j \in 1..Len(pages) :
               j # i => ErrorsOfPage(after, pages[j].page)
                          = ErrorsOfPage(errs, pages[j].page)

\* C9: validateDocument returns exactly one error per failed rule per page
\* (text, image: 0, 1 or 2 a page); a page with valid text and neither image
\* nor lock yields the one error of its image, and locking it removes that
\* error and changes no other page's errors.
DocumentErrors ==
  currentStep = "export" =>
    LET errs == validateDocument(pages, readingLevel)
    IN DocumentErrorsExact(errs) /\ LockRemovesImageError(errs)

\* C9 witness: a page without image, locked by the user, with valid text and
\* no error left, beside a page that still has both errors
DocumentErrorsWitness ==
  /\ currentStep = "export"
  /\ Len(pages) >= 2
  /\ \E i, j \in 1..Len(pages) :
       /\ i # j
       /\ pages[i].imageUrl = ""
       /\ Locked(pages[i])
       /\ validatePage(pages[i].text, readingLevel).isValid
       /\ ErrorsOfPage(validateDocument(pages, readingLevel), pages[i].page) = <<>>
       /\ Len(ErrorsOfPage(validateDocument(pages, readingLevel), pages[j].page)) = 2

-----------------------------------------------------------------------------
(* Properties of export-pdf *)

Exported == response # None /\ response.success

\* the two documents of a successful response
Artifacts == {response.webPdf, response.printPdf}

\* the page number drawn on page k of a document (the cover is page 1)
NumberDrawn(doc, k) == doc[k].texts[1].text

\* C1: the story pages follow the cover in ascending page-number order for
\* every permutation of the input page list (input [3,1,2] is rendered as
\* 1,2,3).
PagesAscending ==
  Exported =>
    \A doc \in Artifacts :
      /\ Len(doc) = Len(request.pages) + 1
      /\ \A k \in 1..Len(request.pages) : NumberDrawn(doc, k + 1) = ToString(k)

\* the layout table of the specification, millimetres
LayoutTable(name) ==
  CASE name = "A5 portrait"       -> <<148, 210, 154, 216>>
    [] name = "A4 portrait"       -> <<210, 297, 216, 303>>
    [] name = "210x210 mm square" -> <<210, 210, 216, 216>>

BleedAdded(size) ==
  /\ DOMAIN size = {"content", "withBleed"}
  /\ size.withBleed.width = size.content.width + 2 * BLEED_MM
  /\ size.withBleed.height = size.content.height + 2 * BLEED_MM

\* C6: every preset of the table defines a content and a withBleed
\* rectangle, withBleed is content plus 6 mm in width and in height, and the
\* values are 148x210/154x216, 210x297/216x303 and 210x210/216x216; the
\* dimensions of a response and the pages of its two documents are those of
\* the table.
BleedIsSixMm ==
  /\ \A name \in DOMAIN PAGE_SIZES :
       /\ BleedAdded(PAGE_SIZES[name])
       /\ <<PAGE_SIZES[name].content.width, PAGE_SIZES[name].content.height,
            PAGE_SIZES[name].withBleed.width, PAGE_SIZES[name].withBleed.height>>
          = LayoutTable(name)
  /\ Exported =>
       /\ BleedAdded(response.dimensions)
       /\ \A k \in 1..Len(response.webPdf) :
            /\ response.webPdf[k].width = mmToPdfPoints(response.dimensions.content.width)
            /\ response.webPdf[k].height = mmToPdfPoints(response.dimensions.content.height)
            /\ response.printPdf[k].width
               = mmToPdfPoints(response.dimensions.content.width + 2 * BLEED_MM)
            /\ response.printPdf[k].height
               = mmToPdfPoints(response.dimensions.content.height + 2 * BLEED_MM)

BleedIsSixMmWitness ==
  /\ Exported
  /\ request.config.pageSize = "A4 portrait"
  /\ Len(request.pages) = MaxPdfPages
  /\ response.printPdf[2].width = mmToPdfPoints(216)
  /\ response.webPdf[2].width = mmToPdfPoints(210)

\* C10: with no child names the cover title is 'Magical Story'; with at
\* least one child name the title is derived from the names.
TitleFallsBack ==
  Exported =>
    \A doc \in Artifacts :
      doc[1].texts[1].text =
        IF request.config.children = <<>>
        THEN "Magical Story"
        ELSE Join(request.config.children, " & ") \o "'s Story"

\* the request carries a token the handler accepts
Authorized ==
  /\ request # None
  /\ request.billingToken # None
  /\ ~verifyBillingToken(request.billingToken).threw
  /\ request.billingToken.payload.item = "export"
  /\ request.billingToken.payload.approved

\* the preset the claim lets a pageSize resolve to
ResolvedPreset(pageSize) ==
  IF pageSize \in PageSizeNames THEN pageSize ELSE "A5 portrait"

\* C11 (as claimed): resolution of the page rectangle is total: a supported
\* preset selects its own rectangle (content without bleed, withBleed with
\* it), any other value selects the A5 portrait rectangle instead of
\* failing, and the image dimensions of generate-images fall back alike.
PresetResolutionTotal ==
  (Authorized /\ response # None) =>
    LET preset == ResolvedPreset(request.config.pageSize)
    IN /\ response.success
       /\ \A k \in 1..Len(response.webPdf) :
            /\ response.webPdf[k].width = mmToPdfPoints(PAGE_SIZES[preset].content.width)
            /\ response.webPdf[k].height = mmToPdfPoints(PAGE_SIZES[preset].content.height)
            /\ response.printPdf[k].width = mmToPdfPoints(PAGE_SIZES[preset].withBleed.width)
            /\ response.printPdf[k].height = mmToPdfPoints(PAGE_SIZES[preset].withBleed.height)
       /\ imageDimensions(request.config.pageSize) = pageSizes[preset]

-----------------------------------------------------------------------------
(* Properties of the export panel *)

\* the documents of a response have one page per page of the request and a
\* cover, and pageCount says so
CoverAndPages(req, res) ==
  res.success =>
    /\ Len(res.webPdf) = Len(req.pages) + 1
    /\ Len(res.printPdf) = Len(req.pages) + 1
    /\ res.pageCount = Len(req.pages) + 1

\* export-pdf, asked by the panel's configuration for no pages at all with
\* a token it accepts, answers with two documents of the cover alone
CoverOnly ==
  \A billingToken \in CheckoutTokens :
    ~verifyBillingToken(billingToken).threw =>
      LET req == [config |-> panelConfig, pages |-> <<>>, billingToken |-> billingToken]
      IN /\ serve(req).success
         /\ CoverAndPages(req, serve(req))
         /\ Len(createPDF(panelConfig, <<>>, FALSE)) = 1
         /\ Len(createPDF(panelConfig, <<>>, TRUE)) = 1

\* C12 (as claimed): a caller supplying zero pages receives a cover-only
\* artifact, every artifact has one page more than the input, and no layer
\* of the export path turns the empty page list into an error.
ZeroPagesNeverAnError ==
  /\ CoverOnly
  /\ response # None => CoverAndPages(request, response)
  /\ toast # "No pages to export"

\* C12 (amended): createPDF and the export-pdf handler give a cover-only
\* artifact for zero pages and (number of input pages + 1) pages in general;
\* the export panel however refuses an empty page list with the error toast
\* 'No pages to export' and posts no request for it.
ZeroPagesCoverOnly ==
  /\ CoverOnly
  /\ response # None => CoverAndPages(request, response)
  /\ pages = <<>> => /\ request = None
                     /\ exports = None
                     /\ toast \in {"", "No pages to export"}
  /\ toast = "No pages to export" => pages = <<>>

ZeroPagesCoverOnlyWitness ==
  /\ pages = <<>>
  /\ toast = "No pages to export"
  /\ ~isExporting
  /\ serve([config |-> panelConfig, pages |-> pages,
            billingToken |-> [decodes |-> TRUE,
                              payload |-> [expires |-> Now + 1, item |-> "export",
                                           approved |-> TRUE]]]).pageCount = 1

\* what an export leaves behind is what createPDF makes of the configuration
\* and the pages as they are
ExportsOfPages ==
  /\ (response # None /\ response.success) =>
       /\ response.webPdf = createPDF(request.config, request.pages, FALSE)
       /\ response.printPdf = createPDF(request.config, request.pages, TRUE)
       /\ request.pages = pages
  /\ exports # None =>
       /\ exports.webPdfUrl = createPDF(panelConfig, pages, FALSE)
       /\ exports.printPdfUrl = createPDF(panelConfig, pages, TRUE)

\* a step of the panel or of the handler leaves the pages and the rest of
\* the configuration as they were
PagesUntouched == pages' = pages /\ panelConfig' = panelConfig

HasPlaceholder(described) ==
  \/ described.rectangles # <<>>
  \/ \E k \in 1..Len(described.texts) : described.texts[k].text = "[Image Area]"

\* C14 (as claimed): a story page holds an image-placeholder region only in
\* the print variant and only when the page has no image of its own: never
\* in the web variant, and not in print for a page with an imageUrl.
PlaceholderOnlyWithoutImage ==
  Exported =>
    \A k \in 1..Len(request.pages) :
      /\ ~HasPlaceholder(response.webPdf[k + 1])
      /\ HasPlaceholder(response.printPdf[k + 1]) <=> request.pages[k].imageUrl = NoImage

-----------------------------------------------------------------------------
(* The frame of the editor's two operations *)

\* before and after hold the same pages but for page i
OnlyPage(before, after, i) ==
  /\ Len(after) = Len(before)
  /\ \A j \in 1..Len(before) : j # i => after[j] = before[j]
  /\ after[i].page = before[i].page

\* editing the text of page i, from the state as it is, changes the text
\* of that page and nothing else
TextEditFrame ==
  \A i \in 1..Len(pages) : \A t \in EditorTexts(readingLevel) :
    LET after == updatePageText(pages, pages[i].page, t)
    IN /\ OnlyPage(pages, after, i)
       /\ after[i] = [pages[i] EXCEPT !.text = t]

\* toggling the lock of page i changes the lock of that page and nothing else
LockFrame ==
  \A i \in 1..Len(pages) :
    LET after == toggleImageLock(pages, pages[i].page)
    IN /\ OnlyPage(pages, after, i)
       /\ Locked(after[i]) = ~Locked(pages[i])
       /\ after[i] = WithLock(pages[i], Locked(after[i]))

\* toggling twice gives the pages back, field by field
TwiceRestoresExactly ==
  \A i \in 1..Len(pages) :
    toggleImageLock(toggleImageLock(pages, pages[i].page), pages[i].page) = pages

\* toggling twice gives back every other field and the lock as a condition;
\* a page that had no imageLocked field comes back with imageLocked false
TwiceRestoresLock ==
  \A i \in 1..Len(pages) :
    LET twice == toggleImageLock(toggleImageLock(pages, pages[i].page), pages[i].page)
    IN /\ OnlyPage(pages, twice, i)
       /\ twice[i] = WithLock(pages[i], Locked(pages[i]))
       /\ "imageLocked" \in DOMAIN pages[i] => twice = pages

\* C15 (as claimed): editing the text or toggling the lock of page n changes
\* only that field of page n, both are available in every state of the
\* editor, and toggling the lock twice restores the page.
EditorFrameExact ==
  currentStep = "export" => TextEditFrame /\ LockFrame /\ TwiceRestoresExactly

\* C15 (amended): editing the text or toggling the lock of page n changes
\* only that field of page n, whatever the state of the editor; toggling the
\* lock twice restores every field of the page but leaves imageLocked: false
\* on a page that had no imageLocked field.
EditorFrame ==
  currentStep = "export" => TextEditFrame /\ LockFrame /\ TwiceRestoresLock

\* a page was locked and unlocked, its text edited, beside a page untouched
EditorFrameWitness ==
  /\ currentStep = "export"
  /\ Len(pages) >= 2
  /\ "imageLocked" \in DOMAIN pages[1]
  /\ ~pages[1].imageLocked
  /\ pages[1].text # pages[2].text
  /\ "imageLocked" \notin DOMAIN pages[2]

-----------------------------------------------------------------------------
(* Properties of story-write *)

Answered(status) == writeResponse # None /\ writeResponse.status = status

\* C16: whatever the outline and the order in which the requests of the
\* pages complete, a successful response holds exactly one page per outline
\* entry, carrying the page number of its entry and the text written for it,
\* in ascending order of page number.
OnePagePerEntry ==
  Answered(200) =>
    LET ps == writeResponse.pages
    IN /\ Len(ps) = Len(outline)
       /\ \A p \in 1..MaxOutlinePages :
            Cardinality({k \in DOMAIN ps : ps[k].page = p})
              = Cardinality({i \in DOMAIN outline : outline[i] = p})
       /\ \A i \in DOMAIN outline :
            \E k \in DOMAIN ps : ps[k] = [page |-> outline[i], text |-> task[i].text]
       /\ \A k \in 1..(Len(ps) - 1) : ps[k].page <= ps[k + 1].page

\* C16 witness: an outline listed in descending order, answered with two
\* pages of different texts
OnePagePerEntryWitness ==
  /\ Answered(200)
  /\ Len(outline) = 2
  /\ outline[1] > outline[2]
  /\ writeResponse.pages[1].text # writeResponse.pages[2].text

\* C18 (as claimed): every page of a successful response has a text that is
\* not empty, the word-count adjustment included.
PagesNeverEmpty ==
  Answered(200) =>
    \A k \in DOMAIN writeResponse.pages : writeResponse.pages[k].text # <<>>

\* C19: once the primary request of a page has come back not ok, the
\* response is status 500 with an error message and without pages, whatever
\* the other pages do and whenever they do it; and a response with pages
\* has a page for every outline entry.
PrimaryFailureFailsAll ==
  /\ (\E i \in DOMAIN task : task[i].primary = "notOk") =>
       /\ Answered(500)
       /\ DOMAIN writeResponse = {"status", "error"}
       /\ writeResponse.error # ""
  /\ Answered(200) =>
       /\ Len(writeResponse.pages) = Len(outline)
       /\ \A i \in DOMAIN task : task[i].pc = "done"

\* C19 witness: the primary request of one page was refused, the other page
\* was written to the end, and the response is the error
PrimaryFailureFailsAllWitness ==
  /\ Answered(500)
  /\ \E i, j \in DOMAIN task :
       /\ task[i].primary = "notOk"
       /\ task[j].pc = "done"
       /\ task[j].text # <<>>

-----------------------------------------------------------------------------
(* Properties of generate-images *)

ImagesAnswered(status) == imagesResponse # None /\ imagesResponse.status = status

\* the calls made for the prompt at position i, and the last of them
CallsFor(i) == SelectSeq(calls, LAMBDA c : c.prompt = i)

LastCallFor(i) == CallsFor(i)[Len(CallsFor(i))]

\* no key: status 500, an error message and no images; and no response
\* before the loop is through
FailsWithoutKey ==
  /\ (awaiting = "done") <=> (imagesResponse # None)
  /\ imagesResponse # None =>
       IF KeyMissing(imageVariant, imageKeys)
       THEN /\ ImagesAnswered(500)
            /\ DOMAIN imagesResponse = {"status", "error"}
            /\ imagesResponse.error # ""
            /\ calls = <<>>
       ELSE ImagesAnswered(200)

\* one entry per prompt, in the order of the prompts, with the page number
\* of its prompt and a URL that is not empty
OneImagePerPrompt ==
  ImagesAnswered(200) =>
    LET imgs == imagesResponse.images
    IN /\ Len(imgs) = Len(prompts)
       /\ \A i \in DOMAIN prompts : imgs[i].page = prompts[i] /\ imgs[i].url # ""

\* C17 (as claimed): with a key configured the response has one entry per
\* prompt, in prompt order, with the prompt's page number and a URL that is
\* not empty, and the entry of a prompt for which a provider call came back
\* not ok, without image data or with an exception holds the placeholder
\* URL; without a key the request fails with status 500 and no images.
PlaceholderOnAnyFailure ==
  /\ FailsWithoutKey
  /\ OneImagePerPrompt
  /\ ImagesAnswered(200) =>
       \A i \in DOMAIN prompts :
         (\E k \in DOMAIN calls : calls[k].prompt = i /\ calls[k].outcome # "image")
           => imagesResponse.images[i].url
                = PlaceholderUrl(imageDimensions(imagePageSize), prompts[i])

\* C17 (amended): as above, but the entry of a prompt holds the placeholder
\* URL exactly when the last provider asked for it failed: the handler with
\* two providers asks OpenAI after Hugging Face came back not ok or without
\* data (never after an exception), and the entry then holds what OpenAI gave.
PlaceholderOnLastFailure ==
  /\ FailsWithoutKey
  /\ OneImagePerPrompt
  /\ ImagesAnswered(200) =>
       \A i \in DOMAIN prompts :
         LET last == LastCallFor(i)
             url == imagesResponse.images[i].url
         IN /\ Len(CallsFor(i)) \in 1..2
            /\ IF last.outcome = "image"
               THEN url = DataUrl(last.provider)
               ELSE url = PlaceholderUrl(imageDimensions(imagePageSize), prompts[i])
            /\ Len(CallsFor(i)) = 2 =>
                 /\ CallsFor(i)[1].provider = "HuggingFace"
                 /\ CallsFor(i)[1].outcome \in {"notOk", "noData"}
                 /\ last.provider = "OpenAI"

\* C17 witness: two prompts answered by the handler with two providers; for
\* the first Hugging Face is not ok and OpenAI gives an image, for the second
\* the fetch throws and the entry is the placeholder of page 2
PlaceholderOnLastFailureWitness ==
  /\ ImagesAnswered(200)
  /\ Len(prompts) = 2
  /\ prompts[2] = 2
  /\ Len(CallsFor(1)) = 2
  /\ CallsFor(1)[1].outcome = "notOk"
  /\ imagesResponse.images[1].url = DataUrl("OpenAI")
  /\ LastCallFor(2).outcome = "threw"
  /\ imagePageSize = "A4 portrait"
  /\ imagesResponse.images[2].url = "https://picsum.photos/1280/1794?random=2"

-----------------------------------------------------------------------------
(* Properties of the generation screen *)

\* the place of a step in idle -> planning -> writing -> images -> complete
StepRank(step) ==
  CASE step = "idle"     -> 0
    [] step = "planning" -> 1
    [] step = "writing"  -> 2
    [] step = "images"   -> 3
    [] step = "complete" -> 4

\* while the screen stays mounted, the step moves to the next step of the
\* order with a progress that does not decrease, or a call has failed and
\* the step is idle again with progress 0 and an error message
StepMovesInOrder ==
  (currentStep = "preview" /\ currentStep' = "preview"
     /\ <<generationStep, progress>>' # <<generationStep, progress>>) =>
    \/ /\ StepRank(generationStep') = StepRank(generationStep) + 1
       /\ progress' >= progress
    \/ /\ generationStep \in {"planning", "writing", "images"}
       /\ generationStep' = "idle"
       /\ progress' = 0
       /\ error' # ""

\* 'Generate Story' is offered in step idle only, 'Edit & Export' in step
\* complete with at least one page only
ButtonsByStep ==
  /\ GenerateOffered => generationStep = "idle"
  /\ (currentStep = "preview" /\ canProceed) =>
       generationStep = "complete" /\ Len(pages) >= 1

\* no call of generateStory starts while another is in flight
OneRunAtATime == Len(runs) <= 1

\* C20 (as claimed): the step moves only along idle -> planning -> writing
\* -> images -> complete with a progress that never decreases during a run,
\* a failed call returns it to idle with progress 0 and an error message,
\* the two buttons are offered in steps idle and complete only, and no new
\* run starts while one is in flight.
GenerationRunsOneAtATime ==
  /\ [](ButtonsByStep /\ OneRunAtATime)
  /\ [][StepMovesInOrder]_vars

-----------------------------------------------------------------------------
(* Properties of the setup form *)

\* a configuration generation may start from
ValidConfig(config) ==
  /\ config.contentSafety
  /\ \E i \in DOMAIN config.storyType : ~IsWs(config.storyType[i])
  /\ \E i \in DOMAIN config.setting : ~IsWs(config.setting[i])
  /\ Len(config.characters) >= 1
  /\ config.lengthPages \in 6..20

\* C21: the wizard is past the setup step only with a valid configuration,
\* and every plan, write or images request in flight carries a configuration
\* with the safety agreement accepted, a story type and a setting that are
\* not blank, at least one character and a length of 6 to 20 pages.
GenerationOnlyWhenValid ==
  /\ currentStep # "setup" => ValidConfig(storyConfig)
  /\ \A r \in DOMAIN runs : ValidConfig(runs[r].config)

\* C21 witness: a write request in flight for the configuration the run
\* started with, while the form is open again with the agreement withdrawn
GenerationOnlyWhenValidWitness ==
  /\ currentStep = "setup"
  /\ ~storyConfig.contentSafety
  /\ \E r \in DOMAIN runs :
       /\ runs[r].at = "writing"
       /\ runs[r].config.contentSafety
       /\ runs[r].config.lengthPages = 20

-----------------------------------------------------------------------------
(* create-print-order: the request handler and its providers *)

PrintProviders == {"PEECHO", "BOOKVAULT", "LULU", "GELATO"}

\* createPeechoOrder: the key and the offering id of the environment are
\* read first, then the order is posted to Peecho; what is thrown reaches
\* the catch of the handler
createPeechoOrder(env) ==
  IF ~env.peechoApiKey
  THEN [threw |-> TRUE, posted |-> FALSE,
        error |-> "Peecho API key not configured. Please set PEECHO_API_KEY in your project settings."]
  ELSE IF ~env.offeringId
  THEN [threw |-> TRUE, posted |-> FALSE, error |-> "Peecho offering ID not configured"]
  ELSE IF ~env.peechoOk
  THEN [threw |-> TRUE, posted |-> TRUE, error |-> "Failed to create Peecho order"]
  ELSE [threw |-> FALSE, posted |-> TRUE, ok |-> TRUE, provider |-> "PEECHO"]

\* createBookVaultOrder, createLuluOrder, createGelatoOrder: stubs that
\* answer without a request to the provider
createStubOrder(provider) ==
  [threw |-> FALSE, posted |-> FALSE, ok |-> FALSE, provider |-> provider]

\* !pdfUrl: no pdfUrl in the body, or an empty one (a URL stands here as
\* the document it encodes, which has a cover page at least)
NoUrl == <<>>

\* the answers of the handler; posted tells whether the order went out to
\* the provider's API
PrintAnswer(status, ok, provider, message, posted) ==
  [status |-> status, ok |-> ok, provider |-> provider, error |-> message,
   posted |-> posted]

\* the response of the handler to a POST request: the token of the header
\* is verified if there is one, a request without the header goes on
servePrint(req, env) ==
  LET refused == PrintAnswer(402, FALSE, "", "Payment required. Please complete billing process.", FALSE)
      tokenData == verifyBillingToken(req.billingToken)
  IN IF /\ req.billingToken # None
        /\ (tokenData.threw \/ tokenData.decoded.item # "print" \/ ~tokenData.decoded.approved)
     THEN refused
     ELSE IF req.pdfUrl = NoUrl
     THEN PrintAnswer(500, FALSE, "", "PDF URL is required", FALSE)
     ELSE IF req.pageSize = ""
     THEN PrintAnswer(500, FALSE, "", "Page size is required", FALSE)
     ELSE IF req.provider \notin PrintProviders
     THEN PrintAnswer(500, FALSE, "", "Unsupported print provider", FALSE)
     ELSE LET orderResult == IF req.provider = "PEECHO" THEN createPeechoOrder(env)
                             ELSE createStubOrder(req.provider)
          IN IF orderResult.threw
             THEN PrintAnswer(500, FALSE, "", orderResult.error, orderResult.posted)
             ELSE PrintAnswer(200, orderResult.ok, orderResult.provider, "", orderResult.posted)

\* the environment of the function and the answer of Peecho
PrintEnvs == [peechoApiKey : BOOLEAN, offeringId : BOOLEAN, peechoOk : BOOLEAN]

-----------------------------------------------------------------------------
(* The export panel with its print order, and the way back to the editor *)

\* the tokens a checkout for item 'print' hands over, some used too late
PrintCheckoutTokens ==
  {[decodes |-> TRUE, payload |-> [expires |-> e, item |-> "print", approved |-> TRUE]] :
     e \in {Now - 1, Now + 1}}

\* the texts typed into the editor here: two that the editor counts as good
PrintTexts(level) ==
  {PlainText(WordCountTargets(level).min), PlainText(WordCountTargets(level).min + 1)}

\* the panel is rendered, no dialog lies over it
PanelOpen == currentStep = "print" /\ ~showExportCheckout /\ ~showPrintCheckout

\* the Order Print button: disabled = !config.exports?.printPdfUrl || isPrinting
OrderPrintOffered == exports # None /\ ~isPrinting

PrintConfigs ==
  {c \in PanelConfigs : /\ c.children = <<"Emma">>
                        /\ c.personal.dedication = ""
                        /\ c.pageSize \in {"A5 portrait", "A4 portrait"}}

\* the panel opened on a book of one page that the editor let through
InitPrint ==
  /\ panelConfig \in PrintConfigs
  /\ readingLevel = "Toddler 2-3"
  /\ pages = <<[page |-> 1, text |-> PlainText(WordCountTargets(readingLevel).min),
                imageUrl |-> "image-url"]>>
  /\ currentStep = "print"
  /\ exports = None
  /\ isExporting = FALSE
  /\ showExportCheckout = FALSE
  /\ toast = ""
  /\ firstExportUsed \in BOOLEAN
  /\ pageText = <<>>
  /\ written = None
  /\ validated = None
  /\ shown = None
  /\ IdlePrint
  /\ IdleBilling
  /\ IdleSession
  /\ IdleTracker
  /\ IdleWrap
  /\ IdleExport
  /\ IdlePreview
  /\ IdleSetup
  /\ IdleServices

\* handlePrintClick
HandlePrintClick ==
  /\ PanelOpen
  /\ OrderPrintOffered
  /\ showPrintCheckout' = TRUE
  /\ UNCHANGED <<isPrinting, paying, printRequest, printResponse, wrapVars, countVars,
                 editorVars, exportVars, panelVars, previewVars, setupVars, serviceVars, billingVars, sessionVars,
                 trackerVars>>

\* the checkout form's handleCreateIntent or handlePayment is started: the
\* async handler keeps the onSuccess of the render it was made in, and with it
\* the config that render of the panel had
PrintCheckoutPay ==
  /\ showPrintCheckout
  /\ paying = <<>>
  /\ paying' = <<exports>>
  /\ UNCHANGED <<isPrinting, showPrintCheckout, printRequest, printResponse, wrapVars,
                 countVars, editorVars, exportVars, panelVars, previewVars, setupVars,
                 serviceVars, billingVars, sessionVars,
                 trackerVars>>

\* billing-intent, the card payment or billing-confirm fails: the error is
\* shown in the form
PrintCheckoutFails ==
  /\ paying # <<>>
  /\ paying' = <<>>
  /\ UNCHANGED <<isPrinting, showPrintCheckout, printRequest, printResponse, wrapVars,
                 countVars, editorVars, exportVars, panelVars, previewVars, setupVars,
                 serviceVars, billingVars, sessionVars,
                 trackerVars>>

\* the Cancel button of the form (disabled while loading)
CancelPrintCheckout ==
  /\ showPrintCheckout
  /\ paying = <<>>
  /\ showPrintCheckout' = FALSE
  /\ UNCHANGED <<isPrinting, paying, printRequest, printResponse, wrapVars, countVars,
                 editorVars, exportVars, panelVars, previewVars, setupVars, serviceVars, billingVars, sessionVars,
                 trackerVars>>

\* createPrintOrder up to its await, with the config of the given render:
\* without a print PDF it is refused with a toast, otherwise the order is
\* posted to create-print-order
CreatePrintOrderCall(captured, billingToken) ==
  IF captured = None
  THEN /\ toast' = "Please export PDFs first"
       /\ UNCHANGED <<isPrinting, printRequest, printResponse>>
  ELSE /\ isPrinting' = TRUE
       /\ printRequest' = <<[provider |-> "PEECHO", pdfUrl |-> captured.printPdfUrl,
                             pageSize |-> panelConfig.pageSize,
                             billingToken |-> billingToken]>>
       /\ printResponse' = <<>>
       /\ UNCHANGED toast

\* the checkout succeeds: onSuccess -> handlePrintSuccess -> createPrintOrder
HandlePrintSuccess ==
  /\ paying # <<>>
  /\ ~isPrinting
  /\ showPrintCheckout' = FALSE
  /\ paying' = <<>>
  /\ \E billingToken \in PrintCheckoutTokens : CreatePrintOrderCall(paying[1], billingToken)
  /\ UNCHANGED <<panelConfig, exports, isExporting, showExportCheckout, firstExportUsed,
                 wrapVars, countVars, editorVars, exportVars, previewVars, setupVars,
                 serviceVars, billingVars, sessionVars,
                 trackerVars>>

\* create-print-order answers the order
ServePrint ==
  /\ printRequest # <<>>
  /\ printResponse = <<>>
  /\ \E env \in PrintEnvs : printResponse' = <<servePrint(printRequest[1], env)>>
  /\ UNCHANGED <<isPrinting, showPrintCheckout, paying, printRequest, wrapVars, countVars,
                 editorVars, exportVars, panelVars, previewVars, setupVars, serviceVars, billingVars, sessionVars,
                 trackerVars>>

\* createPrintOrder after its await: try, catch and finally
CreatePrintOrderReturn ==
  /\ isPrinting
  /\ printResponse # <<>>
  /\ toast' = IF ~InvokeThrows(printResponse[1]) /\ printResponse[1].ok
              THEN "Print order created with " \o printResponse[1].provider
              ELSE "Failed to create print order"
  /\ isPrinting' = FALSE
  /\ showPrintCheckout' = FALSE
  /\ printRequest' = <<>>
  /\ printResponse' = <<>>
  /\ UNCHANGED <<paying, panelConfig, exports, isExporting, showExportCheckout,
                 firstExportUsed, wrapVars, countVars, editorVars, exportVars,
                 previewVars, setupVars, serviceVars, billingVars, sessionVars,
                 trackerVars>>

\* Back to Editor: onBack -> handleBack, taken between requests; the state
\* hooks of the panel are at their initial values when it is mounted again
BackToEditor ==
  /\ PanelOpen
  /\ ~isExporting /\ ~isPrinting /\ paying = <<>>
  /\ currentStep' = handleBack(currentStep)
  /\ UNCHANGED <<pages, wrapVars, countVars, exportVars, panelVars, previewVars,
                 setupVars, restVars, serviceVars>>

\* the text area of the editor: onChange -> updatePageText
EditPageText ==
  /\ currentStep = "export"
  /\ \E t \in PrintTexts(readingLevel) : \E i \in 1..Len(pages) :
       pages' = updatePageText(pages, pages[i].page, t)
  /\ UNCHANGED <<currentStep, wrapVars, countVars, exportVars, panelVars, previewVars,
                 setupVars, restVars, serviceVars>>

\* the Generate PDFs button of the panel in view
GeneratePDFs == PanelOpen /\ HandleExportClick

NextPrint ==
  \/ GeneratePDFs
  \/ HandleExportSuccess
  \/ CancelExportCheckout
  \/ ServeExport
  \/ ExportPDFReturn
  \/ HandlePrintClick
  \/ PrintCheckoutPay
  \/ PrintCheckoutFails
  \/ CancelPrintCheckout
  \/ HandlePrintSuccess
  \/ ServePrint
  \/ CreatePrintOrderReturn
  \/ BackToEditor
  \/ EditPageText
  \/ ExportStory

SpecPrint == InitPrint /\ [][NextPrint]_vars

\* C22: an order is posted only after an export succeeded, and the order
\* posted carries the print PDF URL of the most recent successful export
\* (config.exports holds it) and the configured page size
PrintOrderCarriesLatestExport ==
  [][printRequest' # <<>> /\ printRequest = <<>>
       => /\ exports # None
          /\ printRequest'[1].pdfUrl = exports.printPdfUrl
          /\ printRequest'[1].pageSize = panelConfig.pageSize]_vars

\* C23: while firstExportUsed is false the Generate PDFs (Free) button gets
\* the web and the print PDF from export-pdf without a payment: the request
\* it posts without a billing token is answered with the documents
FreeFirstExportYieldsPdfs ==
  request # None /\ request.billingToken = None /\ response # None
    => ~InvokeThrows(response)

-----------------------------------------------------------------------------
(* export-pdf: the billing gate *)

\* the requests put to the gate: a configuration with a preset and one with
\* a name every object inherits, books of up to one page, every token, and
\* bodies that have no pages
GateConfigs ==
  {c \in Configs : /\ c.children = <<"Emma">>
                   /\ c.storyType = "Bedtime" /\ c.personal.dedication = ""
                   /\ c.pageSize \in {"A5 portrait", "constructor"}}

GateRequests ==
  [config : GateConfigs, pages : {ps \in PageLists : Len(ps) <= 1},
   billingToken : BillingTokens]
    \cup [config : GateConfigs, billingToken : BillingTokens]

InitGate ==
  /\ request = None
  /\ response = None
  /\ IdleWrap
  /\ IdleCount
  /\ IdleEditor
  /\ IdlePanel
  /\ IdlePreview
  /\ IdleSetup
  /\ IdleRest
  /\ IdleServices

\* any client posts a request
PostToGate ==
  /\ request = None
  /\ \E req \in GateRequests : request' = req
  /\ response' = None
  /\ UNCHANGED <<wrapVars, countVars, editorVars, panelVars, previewVars, setupVars,
                 restVars, serviceVars>>

\* the response is delivered; the handler keeps nothing for the next request
ExportAnswered ==
  /\ request # None
  /\ response # None
  /\ request' = None
  /\ response' = None
  /\ UNCHANGED <<wrapVars, countVars, editorVars, panelVars, previewVars, setupVars,
                 restVars, serviceVars>>

NextGate == PostToGate \/ ServeExport \/ ExportAnswered

SpecGate == InitGate /\ [][NextGate]_vars

\* the token passes export-pdf's check: it decodes, names no expiry or one
\* not yet passed, is approved and is for item 'export'
TokenAccepted(token) ==
  /\ token # None
  /\ token.decodes
  /\ token.payload.expires = 0 \/ Now <= token.payload.expires
  /\ token.payload.approved
  /\ token.payload.item = "export"

\* createPDF was run to its end: the response carries the documents
PdfsBuilt(res) == "webPdf" \in DOMAIN res

\* C24 as stated: PDFs are built only for a request whose token decodes, is
\* not expired, is approved and is for item 'export'; every other request is
\* answered with status 402
ExportGated402 ==
  request # None /\ response # None
    => /\ PdfsBuilt(response) => TokenAccepted(request.billingToken)
       /\ ~TokenAccepted(request.billingToken) => response.status = 402

\* C24: for a body with pages, PDFs are built only if the token decodes, is
\* approved, is for item 'export' and names no expiry that has passed, and
\* every other such request is answered with status 402; a body without
\* pages is answered with status 500; no refused request has PDFs built
ExportGated ==
  request # None /\ response # None
    => /\ PdfsBuilt(response)
            => "pages" \in DOMAIN request /\ TokenAccepted(request.billingToken)
       /\ "pages" \in DOMAIN request /\ ~TokenAccepted(request.billingToken)
            => response.status = 402
       /\ "pages" \notin DOMAIN request => response.status = 500
       /\ response.status # 200 => ~PdfsBuilt(response)

\* an approved, unexpired token for item 'print' has been refused
ExportGatedWitness ==
  /\ request # None
  /\ response # None
  /\ "pages" \in DOMAIN request
  /\ request.billingToken # None
  /\ request.billingToken.decodes
  /\ request.billingToken.payload.item = "print"
  /\ request.billingToken.payload.approved
  /\ request.billingToken.payload.expires = Now + 1
  /\ response.status = 402

-----------------------------------------------------------------------------
(* create-print-order: the billing gate *)

\* the bodies and headers put to the handler: a known or unknown provider,
\* a PDF URL or none, a page size or none, every token or no header
OrderRequests ==
  [provider : PrintProviders \cup {"PRINTFUL"},
   pdfUrl : {NoUrl, <<"print-pdf">>},
   pageSize : {"", "A5 portrait"},
   billingToken : BillingTokens]

InitOrder ==
  /\ printRequest = <<>>
  /\ printResponse = <<>>
  /\ isPrinting = FALSE
  /\ showPrintCheckout = FALSE
  /\ paying = <<>>
  /\ IdleBilling
  /\ IdleSession
  /\ IdleTracker
  /\ IdleWrap
  /\ IdleCount
  /\ IdleEditor
  /\ IdleExport
  /\ IdlePanel
  /\ IdlePreview
  /\ IdleSetup
  /\ IdleServices

\* any client posts an order
PostOrder ==
  /\ printRequest = <<>>
  /\ \E req \in OrderRequests : printRequest' = <<req>>
  /\ printResponse' = <<>>
  /\ UNCHANGED <<isPrinting, showPrintCheckout, paying, wrapVars, countVars, editorVars,
                 exportVars, panelVars, previewVars, setupVars, serviceVars, billingVars, sessionVars,
                 trackerVars>>

\* the response is delivered; the handler keeps nothing for the next request
OrderAnswered ==
  /\ printRequest # <<>>
  /\ printResponse # <<>>
  /\ printRequest' = <<>>
  /\ printResponse' = <<>>
  /\ UNCHANGED <<isPrinting, showPrintCheckout, paying, wrapVars, countVars, editorVars,
                 exportVars, panelVars, previewVars, setupVars, serviceVars, billingVars, sessionVars,
                 trackerVars>>

NextOrder == PostOrder \/ ServePrint \/ OrderAnswered

SpecOrder == InitOrder /\ [][NextOrder]_vars

\* the token passes create-print-order's check: it decodes, names no expiry
\* or one not yet passed, is approved and is for item 'print'
PrintTokenAccepted(token) ==
  /\ token # None
  /\ token.decodes
  /\ token.payload.expires = 0 \/ Now <= token.payload.expires
  /\ token.payload.approved
  /\ token.payload.item = "print"

\* C25: an order goes out to a provider only for a request with a verified,
\* unexpired, approved token for item 'print'; a request without such a token
\* is answered with status 402, one with the token but without pdfUrl,
\* without pageSize or with an unsupported provider with status 500, and in
\* each of these cases no provider is contacted
PrintOrderGated ==
  printRequest # <<>> /\ printResponse # <<>>
    => LET req == printRequest[1]
           res == printResponse[1]
       IN /\ res.posted => PrintTokenAccepted(req.billingToken)
          /\ ~PrintTokenAccepted(req.billingToken) => res.status = 402 /\ ~res.posted
          /\ /\ PrintTokenAccepted(req.billingToken)
             /\ req.pdfUrl = NoUrl \/ req.pageSize = "" \/ req.provider \notin PrintProviders
             => res.status = 500 /\ ~res.posted

-----------------------------------------------------------------------------
(* billing-confirm: the request handler *)

TEST_DISCOUNT_CODE == "BEN-TEST-0"

\* 10 * 60 * 1000: the life of a token in milliseconds
TokenLifeMs == 600000

\* generateBillingToken: the data, the time of issue and the expiry, encoded
generateBillingToken(data, now) ==
  [decodes |-> TRUE,
   payload |-> [item |-> data.item, approved |-> data.approved, free |-> data.free,
                testBypass |-> data.testBypass, sessionId |-> data.sessionId,
                timestamp |-> now, expires |-> now + TokenLifeMs]]

\* sessionData?.sessionId || 'unknown'
SessionIdOf(sessionData) == IF sessionData = None THEN "unknown" ELSE sessionData.sessionId

\* the catch of the handler
ConfirmError(message) == [status |-> 500, success |-> FALSE, error |-> message]

\* the handler approved the request
ConfirmApproved(body, free, isTestBypass) ==
  [status |-> 200, success |-> TRUE, approved |-> TRUE, free |-> free,
   testBypass |-> isTestBypass,
   billingToken |-> generateBillingToken(
     [item |-> body.item, approved |-> TRUE, free |-> free, testBypass |-> isTestBypass,
      sessionId |-> SessionIdOf(body.sessionData)], Now)]

\* the handler granting the free first export for any item
confirmFreeForAnyItem(req) ==
  LET body == req.body
      isDevelopment == ~req.production
      isTestBypass == body.discountCode = TEST_DISCOUNT_CODE /\ isDevelopment
  IN IF isTestBypass THEN ConfirmApproved(body, FALSE, TRUE)
     ELSE IF body.sessionData # None /\ ~body.sessionData.firstExportUsed
     THEN ConfirmApproved(body, TRUE, FALSE)
     ELSE IF body.paymentRef # ""
     THEN IF ~req.stripeKey THEN ConfirmError("Stripe secret key not configured")
          ELSE IF req.intentStatus = "succeeded" THEN ConfirmApproved(body, FALSE, FALSE)
          ELSE ConfirmError("Payment verification failed")
     ELSE ConfirmError("No payment reference provided for paid item")

\* the response of the handler to a POST request, given the environment of
\* the function and what Stripe holds for the payment reference
confirm(req) ==
  LET body == req.body
      isDevelopment == ~req.production
      isTestBypass == body.discountCode = TEST_DISCOUNT_CODE /\ isDevelopment
  IN IF isTestBypass THEN ConfirmApproved(body, FALSE, TRUE)
     ELSE IF body.item = "export" /\ body.sessionData # None
             /\ ~body.sessionData.firstExportUsed
     THEN ConfirmApproved(body, TRUE, FALSE)
     ELSE IF body.paymentRef # ""
     THEN IF ~req.stripeKey THEN ConfirmError("Stripe secret key not configured")
          ELSE IF req.intentStatus = "succeeded" THEN ConfirmApproved(body, FALSE, FALSE)
          ELSE ConfirmError("Payment verification failed")
     ELSE ConfirmError("No payment reference provided for paid item")

\* the bodies posted: the items of the checkout, a payment reference or
\* none, a discount code or none, the session of the client or none
ConfirmBodies ==
  [item : {"export", "print", "subscription"},
   paymentRef : {"", "pi_1"},
   discountCode : {"", TEST_DISCOUNT_CODE, "SUMMER"},
   sessionData : {None} \cup [sessionId : {"s1"}, firstExportUsed : BOOLEAN]]

\* a body, NODE_ENV, STRIPE_SECRET_KEY and the status Stripe reports for the
\* payment intent ("missing": retrieve throws)
ConfirmRequests ==
  [body : ConfirmBodies, production : BOOLEAN, stripeKey : BOOLEAN,
   intentStatus : {"succeeded", "processing", "missing"}]

InitConfirm ==
  /\ confirmRequest = <<>>
  /\ confirmResponse = <<>>
  /\ IdlePrint
  /\ IdleSession
  /\ IdleTracker
  /\ IdleWrap
  /\ IdleCount
  /\ IdleEditor
  /\ IdleExport
  /\ IdlePanel
  /\ IdlePreview
  /\ IdleSetup
  /\ IdleServices

\* the checkout posts a request
PostConfirm ==
  /\ confirmRequest = <<>>
  /\ \E req \in ConfirmRequests : confirmRequest' = <<req>>
  /\ confirmResponse' = <<>>
  /\ UNCHANGED <<appVars, printVars, sessionVars, trackerVars>>

\* the handler answers it
ServeConfirm ==
  /\ confirmRequest # <<>>
  /\ confirmResponse = <<>>
  /\ confirmResponse' = <<confirm(confirmRequest[1])>>
  /\ UNCHANGED <<confirmRequest, appVars, printVars, sessionVars, trackerVars>>

\* the response is delivered; the handler keeps nothing for the next request
ConfirmAnswered ==
  /\ confirmRequest # <<>>
  /\ confirmResponse # <<>>
  /\ confirmRequest' = <<>>
  /\ confirmResponse' = <<>>
  /\ UNCHANGED <<appVars, printVars, sessionVars, trackerVars>>

NextConfirm == PostConfirm \/ ServeConfirm \/ ConfirmAnswered

SpecConfirm == InitConfirm /\ [][NextConfirm]_vars

\* a token is part of the response
TokenIssued(res) == "billingToken" \in DOMAIN res

\* C26: billing-confirm issues a token only when the test discount code is
\* used outside production, or the item is 'export' and the session has
\* firstExportUsed false, or the payment reference names a payment intent
\* that Stripe reports as succeeded; otherwise it answers with status 500 and
\* no token; a free token is issued only for item 'export'; every token has
\* approved true and expires ten minutes after its issue
ConfirmIssuesToken ==
  confirmRequest # <<>> /\ confirmResponse # <<>>
    => LET req == confirmRequest[1]
           body == req.body
           res == confirmResponse[1]
           bypass == body.discountCode = TEST_DISCOUNT_CODE /\ ~req.production
           firstExport == /\ body.item = "export"
                          /\ body.sessionData # None
                          /\ ~body.sessionData.firstExportUsed
           paid == body.paymentRef # "" /\ req.intentStatus = "succeeded"
       IN /\ TokenIssued(res) => bypass \/ firstExport \/ paid
          /\ ~(bypass \/ firstExport \/ paid) => res.status = 500
          /\ ~TokenIssued(res) => res.status = 500
          /\ res.status = 500 => ~TokenIssued(res)
          /\ TokenIssued(res)
               => /\ res.billingToken.payload.free => body.item = "export"
                  /\ res.billingToken.payload.approved
                  /\ res.billingToken.payload.item = body.item
                  /\ res.billingToken.payload.expires = Now + TokenLifeMs
                  /\ res.billingToken.payload.timestamp = Now

\* a free token has been issued for a first export
ConfirmIssuesTokenWitness ==
  /\ confirmRequest # <<>>
  /\ confirmResponse # <<>>
  /\ TokenIssued(confirmResponse[1])
  /\ confirmResponse[1].billingToken.payload.free
  /\ confirmRequest[1].body.item = "export"
  /\ confirmRequest[1].body.paymentRef = ""

-----------------------------------------------------------------------------
(* lib/session: the session kept in localStorage, and its readers *)

\* the latest Date.now() followed
MaxSessionClock == 3

SESSION_KEY_PREFIX == "storybook_session"

\* getStorageKey; no userId is the empty string
getStorageKey(uid) ==
  IF uid # "" THEN SESSION_KEY_PREFIX \o "_" \o uid ELSE SESSION_KEY_PREFIX

\* localStorage.getItem: the values stored under the key (one or none)
getItem(store, key) == {it.value : it \in {x \in store : x.key = key}}

\* localStorage.setItem
setItem(store, key, value) ==
  {x \in store : x.key # key} \cup {[key |-> key, value |-> value]}

\* getSession: the session stored under the key of the user, or a new one
\* (with the given id and the time as createdAt) that is stored first
getSession(store, uid, id, now) ==
  LET stored == getItem(store, getStorageKey(uid))
      newSession == [sessionId |-> id, firstExportUsed |-> FALSE, createdAt |-> now,
                     userId |-> uid]
  IN IF stored # {}
     THEN [session |-> CHOOSE v \in stored : TRUE, store |-> store]
     ELSE [session |-> newSession, store |-> setItem(store, getStorageKey(uid), newSession)]

\* userId ?? session.userId
Coalesce(uid, other) == IF uid # "" THEN uid ELSE other

\* updateSession({firstExportUsed: used}, userId)
updateSession(store, used, uid, id, now) ==
  LET got == getSession(store, uid, id, now)
      updatedSession == [got.session EXCEPT !.firstExportUsed = used,
                                            !.userId = Coalesce(uid, got.session.userId)]
  IN setItem(got.store, getStorageKey(Coalesce(uid, got.session.userId)), updatedSession)

\* markFirstExportUsed
markFirstExportUsed(store, uid, id, now) == updateSession(store, TRUE, uid, id, now)

\* generateSessionId: random
SessionIds == {"s1", "s2"}

\* a successful export has marked the first export used
Marked(store) == \E it \in store : it.value.firstExportUsed

\* a browser with nothing stored; the user signed in (as AuthGate asks) or
\* no user
InitSession ==
  /\ localStorage = {}
  /\ userId \in {"", "u1"}
  /\ sessionClock = 0
  /\ lastRead = <<>>
  /\ IdlePrint
  /\ IdleBilling
  /\ IdleTracker
  /\ IdleWrap
  /\ IdleCount
  /\ IdleEditor
  /\ IdleExport
  /\ IdlePanel
  /\ IdlePreview
  /\ IdleSetup
  /\ IdleServices

\* time passes
SessionTick ==
  /\ sessionClock < MaxSessionClock
  /\ sessionClock' = sessionClock + 1
  /\ UNCHANGED <<localStorage, userId, lastRead, appVars, printVars, billingVars,
                 trackerVars>>

\* the export panel renders: getSession()
PanelReadsSession ==
  /\ \E id \in SessionIds :
       LET got == getSession(localStorage, "", id, sessionClock)
       IN /\ localStorage' = got.store
          /\ lastRead' = <<[by |-> "panel", session |-> got.session,
                            marked |-> Marked(localStorage)]>>
  /\ UNCHANGED <<userId, sessionClock, appVars, printVars, billingVars, trackerVars>>

\* the checkout form renders: getSession(user?.id)
CheckoutReadsSession ==
  /\ \E id \in SessionIds :
       LET got == getSession(localStorage, userId, id, sessionClock)
       IN /\ localStorage' = got.store
          /\ lastRead' = <<[by |-> "checkout", session |-> got.session,
                            marked |-> Marked(localStorage)]>>
  /\ UNCHANGED <<userId, sessionClock, appVars, printVars, billingVars, trackerVars>>

\* exportPDF after a successful api.exportPDF: getSession(), and
\* markFirstExportUsed() unless the flag is set
ExportMarksSession ==
  /\ \E id \in SessionIds :
       LET got == getSession(localStorage, "", id, sessionClock)
       IN localStorage' = IF ~got.session.firstExportUsed
                          THEN markFirstExportUsed(got.store, "", id, sessionClock)
                          ELSE got.store
  /\ UNCHANGED <<userId, sessionClock, lastRead, appVars, printVars, billingVars,
                 trackerVars>>

NextSession ==
  SessionTick \/ PanelReadsSession \/ CheckoutReadsSession \/ ExportMarksSession

SpecSession == InitSession /\ [][NextSession]_vars

\* C27: once a successful export has marked the first export used, every
\* later read of the session, by the export panel and by the checkout form
\* alike, reports firstExportUsed = true
MarkedSessionReadsUsed ==
  lastRead # <<>> /\ lastRead[1].marked => lastRead[1].session.firstExportUsed

-----------------------------------------------------------------------------
(* export-pdf: where the lines of a story page are drawn *)

\* n words of len letters, a space between them
WordsOfLength(n, len) ==
  [i \in 1..(n * (len + 1) - 1) |-> IF i % (len + 1) = 0 THEN " " ELSE "a"]

\* word counts from the lowest to the highest that validatePage accepts at
\* some reading level
LayoutWordCounts == {45, 60, 80, 95, 135, 165}

\* letters per word: short, ordinary and long words
LayoutWordLengths == {1, 5, 10}

LayoutTexts == {WordsOfLength(n, len) : n \in LayoutWordCounts, len \in LayoutWordLengths}

\* validatePage accepts the text at some reading level
AcceptedText(t) == \E level \in ReadingLevels : validatePage(t, level).isValid

\* a book of one page with an accepted text, a preset page size, a token of
\* the checkout
LayoutRequests ==
  {[config |-> c, pages |-> <<[page |-> 1, text |-> t, imageUrl |-> "image-url"]>>,
    billingToken |-> [decodes |-> TRUE,
                      payload |-> [expires |-> Now + 1, item |-> "export",
                                   approved |-> TRUE]]] :
     c \in {d \in PanelConfigs : d.children = <<"Emma">> /\ d.personal.dedication = ""},
     t \in {u \in LayoutTexts : AcceptedText(u)}}

\* the panel posts the book
PostLayout ==
  /\ request = None
  /\ \E req \in LayoutRequests : request' = req
  /\ response' = None
  /\ UNCHANGED <<wrapVars, countVars, editorVars, panelVars, previewVars, setupVars,
                 restVars, serviceVars>>

NextLayout == PostLayout \/ ServeExport \/ ExportAnswered

SpecLayout == InitGate /\ [][NextLayout]_vars

\* the lines of the story text among what is drawn on a page (the page
\* number is drawn at size 10, the placeholder label at size 12)
StoryLines(page) == SelectSeq(page.texts, LAMBDA d : d.size \in {14, 16})

\* every line of the page is where the claim puts it, and on the page above
\* the page number
LinesOnPage(page, advance) ==
  LET drawn == StoryLines(page)
  IN \A k \in 0..(Len(drawn) - 1) :
       /\ drawn[k + 1].y = Times(page.height, 60) - k * advance
       /\ drawn[k + 1].y >= 0
       /\ drawn[k + 1].y > Times(page.height, 5)

\* C28: for every page whose text validation accepts, the k-th wrapped line
\* (from 0) is drawn at 60% of the page height minus k times the line advance
\* (18 points in the web document, 20 in the print document) and stays on the
\* page: no line at a negative y, none at or below the page number (5% of the
\* height)
LinesStayOnPage ==
  /\ request # None
  /\ response # None
  /\ PdfsBuilt(response)
  /\ AcceptedText(request.pages[1].text)
  => /\ LinesOnPage(response.webPdf[2], 18000)
     /\ LinesOnPage(response.printPdf[2], 20000)

-----------------------------------------------------------------------------
(* The wizard: its steps and the panel of each *)

\* types.ts: AppStep
AppSteps == {"setup", "preview", "edit", "export"}

\* the main content of StoryGenerator: the components rendered at a step
PanelsShown(step) ==
  (IF step = "setup" THEN {"SetupForm"} ELSE {})
    \cup (IF step = "preview" THEN {"PreviewGenerate"} ELSE {})
    \cup (IF step = "export" THEN {"PageEditor"} ELSE {})

\* C29: in every reachable state of the wizard the current step is one of
\* the declared steps and exactly one panel is shown, and from every step
\* that has a Back button, Back followed by Next leads to the same step
StepDeclaredOnePanel ==
  /\ currentStep \in AppSteps
  /\ Cardinality(PanelsShown(currentStep)) = 1
  /\ currentStep # "setup" => handleNext(handleBack(currentStep)) = currentStep

-----------------------------------------------------------------------------
(* The baby tracker: quick logs and the Undo offer *)

\* the most quick logs followed
MaxLogs == 3

\* the last second followed
MaxClock == 8

\* window.setTimeout(..., 5000), in seconds
UndoSeconds == 5

InitTracker ==
  /\ logs = <<>>
  /\ undo = <<>>
  /\ timers = {}
  /\ clock = 0
  /\ logged = 0
  /\ IdlePrint
  /\ IdleBilling
  /\ IdleSession
  /\ IdleWrap
  /\ IdleCount
  /\ IdleEditor
  /\ IdleExport
  /\ IdlePanel
  /\ IdlePreview
  /\ IdleSetup
  /\ IdleServices

\* quickLog: the entry (its id is Date.now() in milliseconds, later for a
\* later entry) is put before data.logs, becomes the undo offer, and a
\* timeout is set that clears the offer
quickLog ==
  /\ logged < MaxLogs
  /\ LET entry == [id |-> logged + 1, at |-> clock]
     IN /\ logs' = <<entry>> \o logs
        /\ undo' = <<entry>>
  /\ timers' = timers \cup {clock + UndoSeconds}
  /\ logged' = logged + 1
  /\ UNCHANGED <<clock, appVars, printVars, billingVars, sessionVars>>

\* a timeout is due: () => setUndo(null)
TimeoutFires ==
  /\ \E due \in timers :
       /\ due <= clock
       /\ timers' = timers \ {due}
  /\ undo' = <<>>
  /\ UNCHANGED <<logs, clock, logged, appVars, printVars, billingVars, sessionVars>>

\* a second passes; a timeout that is due runs first
TrackerTick ==
  /\ clock < MaxClock
  /\ \A due \in timers : due > clock
  /\ clock' = clock + 1
  /\ UNCHANGED <<logs, undo, timers, logged, appVars, printVars, billingVars,
                 sessionVars>>

\* the Undo button of the offer: the entry is filtered out of data.logs and
\* the offer is cleared
PressUndo ==
  /\ undo # <<>>
  /\ logs' = SelectSeq(logs, LAMBDA log : log.id # undo[1].id)
  /\ undo' = <<>>
  /\ UNCHANGED <<timers, clock, logged, appVars, printVars, billingVars, sessionVars>>

NextTracker == quickLog \/ TimeoutFires \/ TrackerTick \/ PressUndo

SpecTracker == InitTracker /\ [][NextTracker]_vars

\* C30: after any sequence of quick logs the Undo offer belongs to the entry
\* logged last, and it stays available for the full five seconds after that
\* entry was logged (unless Undo was pressed), whatever earlier timeouts are
\* pending
UndoOfferLasts ==
  /\ undo # <<>> => undo[1].id = logged
  /\ logs # <<>> /\ logs[1].id = logged /\ clock < logs[1].at + UndoSeconds
       => undo = <<logs[1]>>

=============================================================================
